---- MODULE Spec2Model ----
(***************************************************************************)
(* Pushdown-automaton simulator (pda_sim.core): the stack, the             *)
(* configuration, the automaton definition and the two drivers of the      *)
(* simulation, stepwise_run (a generator of frontiers) and accepts (the    *)
(* accept/reject verdict with its witness history).                        *)
(*                                                                         *)
(* Symbols are opaque strings.  The reserved token written 'ε' in the      *)
(* source is the string "eps" here; '?' is itself.  Python's None is the   *)
(* string "None", which is no symbol of any automaton of the model.        *)
(* A Stack is the sequence of its _items, bottom first, top last.          *)
(* max_steps is always given explicitly (the None -> DEFAULT_MAX_STEPS     *)
(* default of the two drivers is a run of 1000 steps).                     *)
(***************************************************************************)
EXTENDS Integers, Sequences, FiniteSets, Bags, TLC

EPSILON == "eps"
WILDCARD_EMPTY == "?"
None == "None"

DEFAULT_MAX_CONFIGS == 500

\* Bounds of the model.
MaxLen == 4
MaxSteps == 5
MaxConfigs == 2

\* The per-signature visit cap of the scenario with the epsilon self-loop.
maxVisitsPerSignature == 3

(***************************************************************************)
(* Stack                                                                   *)
(***************************************************************************)
Stack_new == << >>

\* Mutant: the sequence is pushed under the items of the stack.
Stack_push_under(items, seq) == seq \o items

\* Mutant: each symbol in turn goes under those pushed with it, the first of
\* the sequence ending on top.
Stack_push_first_on_top(items, seq) ==
    items \o [k \in 1..Len(seq) |-> seq[Len(seq) + 1 - k]]

Stack_push(items, seq) == items \o seq

\* pop and peek raise IndexError on an empty stack.
Stack_pop_raises(items) == items = << >>

Stack_pop_value(items) == items[Len(items)]

\* Mutant: pop returns the top and leaves it on the stack.
Stack_pop_rest_kept(items) == items

Stack_pop_rest(items) == SubSeq(items, 1, Len(items) - 1)

Stack_peek_raises(items) == items = << >>

\* Mutant: peek returns the bottom of the stack.
Stack_peek_bottom(items) == items[1]

Stack_peek(items) == items[Len(items)]

Stack_is_empty(items) == Len(items) = 0

Stack_len(items) == Len(items)

Stack_copy(items) == items

(***************************************************************************)
(* PDAConfig                                                               *)
(***************************************************************************)
PDAConfig(state, remaining_input, stack, history) ==
    [state |-> state, remaining_input |-> remaining_input,
     stack |-> stack, history |-> history]

PDAConfig_copy(config) ==
    PDAConfig(config.state, config.remaining_input,
              Stack_copy(config.stack), config.history)

\* Mutant: add_history overwrites the last entry of the history.
add_history_overwriting(config, description) ==
    [config EXCEPT !.history = Append(SubSeq(@, 1, Len(@) - 1), description)]

add_history(config, description) ==
    [config EXCEPT !.history = Append(@, description)]

get_current_input_symbol(config) ==
    IF config.remaining_input = << >> THEN None
    ELSE config.remaining_input[1]

consume_input_raises(config) == config.remaining_input = << >>

\* Mutant: consume_input drops the last symbol of the remaining input.
consume_input_last(config) ==
    [config EXCEPT !.remaining_input = SubSeq(@, 1, Len(@) - 1)]

\* Mutant: consume_input empties the remaining input.
consume_input_all(config) ==
    [config EXCEPT !.remaining_input = << >>]

consume_input(config) ==
    [config EXCEPT !.remaining_input = Tail(@)]

is_input_empty(config) == Len(config.remaining_input) = 0

(***************************************************************************)
(* Automaton                                                               *)
(***************************************************************************)
Transition(from_state, to_state, read, pop, push) ==
    [from_state |-> from_state, to_state |-> to_state,
     read |-> read, pop |-> pop, push |-> push]

Automaton(states, input_alphabet, stack_alphabet, initial_state, final_states, transitions) ==
    [states |-> states, input_alphabet |-> input_alphabet,
     stack_alphabet |-> stack_alphabet, initial_state |-> initial_state,
     final_states |-> final_states, transitions |-> transitions]

\* Mutant: the transitions leaving the state, the last defined first.
get_transitions_from_reversed(A, state) ==
    LET from == SelectSeq(A.transitions, LAMBDA t : t.from_state = state)
    IN  [k \in 1..Len(from) |-> from[Len(from) + 1 - k]]

get_transitions_from(A, state) ==
    SelectSeq(A.transitions, LAMBDA t : t.from_state = state)

(***************************************************************************)
(* simulator: one transition, one configuration                            *)
(***************************************************************************)
_is_transition_applicable(transition, current_input, stack_top) ==
    LET readFails ==
            IF transition.read = EPSILON THEN FALSE
            ELSE IF transition.read = WILDCARD_EMPTY /\ current_input = None
                 THEN FALSE
            ELSE IF current_input = None THEN TRUE
            ELSE transition.read # current_input
        popFails ==
            IF transition.pop = EPSILON THEN FALSE
            ELSE IF transition.pop = WILDCARD_EMPTY /\ stack_top = None
                 THEN FALSE
            ELSE IF stack_top = None THEN TRUE
            ELSE transition.pop # stack_top
    IN  ~readFails /\ ~popFails

\* The history entry of a transition: the f-string of its five fields, the
\* push rendered as ','.join(push), or 'ε' when the push is empty.
history_entry(transition) ==
    [from_state |-> transition.from_state,
     to_state |-> transition.to_state,
     read |-> transition.read,
     pop |-> transition.pop,
     push |-> IF transition.push # << >> THEN transition.push
              ELSE <<EPSILON>>]

\* _apply_transition raises IndexError when consume_input or stack.pop does.
_apply_transition_raises(config, transition) ==
    \/ /\ transition.read \notin {EPSILON, WILDCARD_EMPTY}
       /\ consume_input_raises(config)
    \/ /\ transition.pop # EPSILON
       /\ Stack_pop_raises(config.stack)

_apply_transition(config, transition) ==
    LET c1 == [PDAConfig_copy(config) EXCEPT !.state = transition.to_state]
        c2 == IF transition.read \notin {EPSILON, WILDCARD_EMPTY}
              THEN consume_input(c1) ELSE c1
        c3 == IF transition.pop # EPSILON
              THEN [c2 EXCEPT !.stack = Stack_pop_rest(@)] ELSE c2
        c4 == IF transition.push # << >>
              THEN [c3 EXCEPT !.stack = Stack_push(@, transition.push)]
              ELSE c3
    IN  add_history(c4, history_entry(transition))

\* The transitions simulate_step applies to config, in the automaton's order.
applicable_transitions(config, A) ==
    LET current_input_symbol == get_current_input_symbol(config)
        stack_top == IF Stack_peek_raises(config.stack) THEN None
                     ELSE Stack_peek(config.stack)
    IN  SelectSeq(get_transitions_from(A, config.state),
                  LAMBDA t : _is_transition_applicable(
                                 t, current_input_symbol, stack_top))

simulate_step_raises(config, A) ==
    LET ts == applicable_transitions(config, A)
    IN  \E i \in 1..Len(ts) : _apply_transition_raises(config, ts[i])

simulate_step(config, A) ==
    LET ts == applicable_transitions(config, A)
    IN  [i \in 1..Len(ts) |-> _apply_transition(config, ts[i])]

(***************************************************************************)
(* simulator: the frontier                                                 *)
(***************************************************************************)
\* The loop "for config in frontier: next_frontier.extend(simulate_step(..))".
expand_raises(frontier, A) ==
    \E i \in 1..Len(frontier) : simulate_step_raises(frontier[i], A)

RECURSIVE expand(_, _)
expand(frontier, A) ==
    IF frontier = << >> THEN << >>
    ELSE simulate_step(Head(frontier), A) \o expand(Tail(frontier), A)

\* score_config: a tuple, compared by Python as tuples are (lexicographic).
score_config(config, A) ==
    <<IF config.state \in A.final_states THEN 1 ELSE 0,
      -Len(config.remaining_input),
      -Stack_len(config.stack)>>

tuple_less(s, t) ==
    \/ s[1] < t[1]
    \/ s[1] = t[1] /\ s[2] < t[2]
    \/ s[1] = t[1] /\ s[2] = t[2] /\ s[3] < t[3]

\* sorted(configs, key=score_config, reverse=True): descending and stable,
\* configurations of equal score keep their order.
RECURSIVE sorted_reverse(_, _)
sorted_reverse(configs, A) ==
    IF configs = << >> THEN << >>
    ELSE LET n == Len(configs)
             x == configs[n]
             rest == sorted_reverse(SubSeq(configs, 1, n - 1), A)
             ahead == Cardinality({i \in 1..Len(rest) :
                          ~tuple_less(score_config(rest[i], A),
                                      score_config(x, A))})
         IN  SubSeq(rest, 1, ahead) \o <<x>> \o SubSeq(rest, ahead + 1, Len(rest))

\* Mutant: the slice keeps the whole sequence.
slice_to_whole(seq, n) == seq

\* The slice seq[:n] of Python, a negative n counting from the end.
slice_to(seq, n) ==
    IF n >= 0 THEN SubSeq(seq, 1, IF n < Len(seq) THEN n ELSE Len(seq))
    ELSE SubSeq(seq, 1, IF Len(seq) + n > 0 THEN Len(seq) + n ELSE 0)

\* Mutant: the first max_configs configurations are kept, unranked.
_prune_configurations_unranked(configs, A, max_configs) ==
    slice_to(configs, max_configs)

_prune_configurations(configs, A, max_configs) ==
    slice_to(sorted_reverse(configs, A), max_configs)

\* The signature of a configuration: what loop suppression would count.
config_signature(config) ==
    <<config.state, config.remaining_input, config.stack>>

\* Mutant: a successor that repeats the signature of a configuration of the
\* frontier it comes from is discarded.
next_frontier_of_suppressing(frontier, A, max_configs) ==
    LET next_frontier ==
            SelectSeq(expand(frontier, A),
                      LAMBDA c : \A i \in 1..Len(frontier) :
                          config_signature(frontier[i]) # config_signature(c))
    IN  IF Len(next_frontier) > max_configs
        THEN _prune_configurations(next_frontier, A, max_configs)
        ELSE next_frontier

\* The expansion of one frontier by either driver, pruning included.
next_frontier_of(frontier, A, max_configs) ==
    LET next_frontier == expand(frontier, A)
    IN  IF Len(next_frontier) > max_configs
        THEN _prune_configurations(next_frontier, A, max_configs)
        ELSE next_frontier

\* Mutant: the input left is not looked at in either mode.
_is_accepting_configuration_any_input(config, A, acceptance_mode) ==
    IF acceptance_mode = "final_state"
    THEN config.state \in A.final_states
    ELSE Stack_is_empty(config.stack)

\* Mutant: a final state accepts whatever input is left.
_is_accepting_configuration_leftover(config, A, acceptance_mode) ==
    IF acceptance_mode = "final_state"
    THEN config.state \in A.final_states
    ELSE is_input_empty(config) /\ Stack_is_empty(config.stack)

\* Mutant: a stack holding one last symbol counts as empty.
_is_accepting_configuration_marker(config, A, acceptance_mode) ==
    IF ~is_input_empty(config) THEN FALSE
    ELSE IF acceptance_mode = "final_state"
         THEN config.state \in A.final_states
         ELSE Stack_len(config.stack) <= 1

_is_accepting_configuration(config, A, acceptance_mode) ==
    IF ~is_input_empty(config) THEN FALSE
    ELSE IF acceptance_mode = "final_state"
         THEN config.state \in A.final_states
         ELSE Stack_is_empty(config.stack)

\* Mutant: the limit is taken as reached one step early.
step_limit_exceeded_early(step_count, max_steps) == step_count >= max_steps

\* The step-limit test of both drivers.
step_limit_exceeded(step_count, max_steps) == step_count > max_steps

\* Mutant: no mode is rejected, any other one falling to the last branch of
\* _is_accepting_configuration.
invalid_acceptance_mode_none(acceptance_mode) == FALSE

\* The mode test at the head of accepts.
invalid_acceptance_mode(acceptance_mode) ==
    acceptance_mode \notin {"final_state", "empty_stack"}

(***************************************************************************)
(* The automata of the model, with the initial_stack_symbol their          *)
(* definition file declares (cli.interactive_build writes it; no loader    *)
(* and no driver reads it).                                                *)
(***************************************************************************)
NoSymbol == None

\* One state: push '(' on reading '(', pop '(' on reading ')'.
Parens ==
    Automaton({"q0"}, {"(", ")"}, {"("}, "q0", {},
              <<Transition("q0", "q0", "(", EPSILON, <<"(">>),
                Transition("q0", "q0", ")", "(", << >>)>>)

\* Two states, an epsilon self-loop on q0, the final state out of reach.
Loop ==
    Automaton({"q0", "q1"}, {"a"}, {}, "q0", {"q1"},
              <<Transition("q0", "q0", EPSILON, EPSILON, << >>)>>)

\* Reaches its final state after one 'a' and has no transition from there.
OneA ==
    Automaton({"q0", "q1"}, {"a", "b"}, {}, "q0", {"q1"},
              <<Transition("q0", "q1", "a", EPSILON, << >>)>>)

\* Nondeterministic: four transitions leave q0, three of them on 'a'.
Branch ==
    Automaton({"q0", "q1"}, {"a"}, {"A"}, "q0", {"q1"},
              <<Transition("q0", "q0", "a", EPSILON, <<"A">>),
                Transition("q0", "q1", EPSILON, EPSILON, << >>),
                Transition("q0", "q1", "a", EPSILON, <<"A", "A">>),
                Transition("q0", "q1", "a", EPSILON, << >>),
                Transition("q1", "q1", "a", "A", << >>)>>)

\* Keeps a bottom marker Z, pushed by its first transition.
Marker ==
    Automaton({"q0", "q1"}, {"a"}, {"Z", "A"}, "q0", {},
              <<Transition("q0", "q1", EPSILON, EPSILON, <<"Z">>),
                Transition("q1", "q1", "a", "Z", <<"Z">>)>>)

\* Uses the empty tests '?': on the input (applied) and on the stack.
Wild ==
    Automaton({"q0", "q1"}, {"a"}, {"A"}, "q0", {},
              <<Transition("q0", "q0", "a", EPSILON, <<"A">>),
                Transition("q0", "q1", WILDCARD_EMPTY, "A", << >>),
                Transition("q1", "q1", EPSILON, "A", << >>),
                Transition("q1", "q1", WILDCARD_EMPTY, WILDCARD_EMPTY, << >>)>>)

\* Declares '?' as an input symbol and as a stack symbol, as config/loader
\* requires of a definition whose transitions read or pop '?'.
Reserved ==
    Automaton({"q0", "q1"}, {WILDCARD_EMPTY}, {WILDCARD_EMPTY}, "q0", {"q1"},
              <<Transition("q0", "q1", WILDCARD_EMPTY, EPSILON,
                           <<WILDCARD_EMPTY>>),
                Transition("q1", "q1", EPSILON, WILDCARD_EMPTY, << >>)>>)

\* Pushes two different symbols at once, the second of them on top.
Order ==
    Automaton({"q0", "q1"}, {"a"}, {"A", "B"}, "q0", {"q1"},
              <<Transition("q0", "q0", "a", EPSILON, <<"A", "B">>),
                Transition("q0", "q1", EPSILON, "B", << >>),
                Transition("q1", "q1", EPSILON, "A", <<"B", "B">>)>>)

\* Built with Automaton and add_transition directly, which validate nothing:
\* goes to a state it does not declare and pushes a symbol outside its stack
\* alphabet.
Undeclared ==
    Automaton({"q0"}, {"a"}, {"A"}, "q0", {},
              <<Transition("q0", "q0", "a", EPSILON, <<"B">>),
                Transition("q0", "q2", EPSILON, EPSILON, <<"A">>)>>)

\* Reads a symbol on every transition and tests the stack for emptiness.
EmptyTest ==
    Automaton({"q0", "q1"}, {"a"}, {"A"}, "q0", {"q1"},
              <<Transition("q0", "q1", "a", WILDCARD_EMPTY, << >>)>>)

Definitions ==
    {[automaton |-> Parens, initial_stack_symbol |-> NoSymbol],
     [automaton |-> Loop, initial_stack_symbol |-> NoSymbol],
     [automaton |-> OneA, initial_stack_symbol |-> NoSymbol],
     [automaton |-> Branch, initial_stack_symbol |-> NoSymbol],
     [automaton |-> Marker, initial_stack_symbol |-> "Z"],
     [automaton |-> Wild, initial_stack_symbol |-> NoSymbol],
     [automaton |-> Reserved, initial_stack_symbol |-> NoSymbol],
     [automaton |-> Order, initial_stack_symbol |-> NoSymbol],
     [automaton |-> Undeclared, initial_stack_symbol |-> NoSymbol],
     [automaton |-> EmptyTest, initial_stack_symbol |-> NoSymbol]}

\* list(input_string): the strings over an alphabet, up to MaxLen symbols.
Strings(alphabet) ==
    UNION {[1..n -> alphabet] : n \in 0..MaxLen}

AcceptanceModes == {"final_state", "empty_stack", "other"}

\* Simulation modes the command line passes to stepwise_run.
Modes == {"step", "rand"}

(***************************************************************************)
(* State                                                                   *)
(***************************************************************************)
VARIABLES
    automaton,            \* the Automaton both drivers are called with
    initial_stack_symbol, \* declared by the definition file
    input_string,         \* list(input_string)
    max_steps,            \* argument of both drivers
    max_configs,          \* argument of stepwise_run
    acceptance_mode,      \* argument of accepts
    sw_mode,              \* argument mode of stepwise_run, never read
    sw_pc,                \* stepwise_run: "start", "yielded", "done",
                          \*   "RuntimeError", "IndexError"
    sw_frontier,          \* stepwise_run's frontier
    sw_step_count,        \* stepwise_run's step_count
    sw_emitted,           \* the frontiers stepwise_run has yielded, in order
    sw_pruned,            \* the next_frontier of the last step, if pruned
    ac_pc,                \* accepts: "start", "loop", "returned",
                          \*   "RuntimeError", "ValueError", "IndexError"
    ac_frontier,          \* accepts' frontier
    ac_step_count,        \* accepts' step_count
    ac_result,            \* what accepts returned
    ac_explored,          \* the frontiers accepts has checked, in order
    sw_prev,              \* the call of stepwise_run made before this one
    ac_prev,              \* the call of accepts made before this one
    o_pc,                 \* objects: "off", "built", "forked", "IndexError",
                          \*   "OpIndexError"
    o_heap,               \* the lists allocated so far, by address
    o_configs,            \* the PDAConfig objects: the one simulate_step is
                          \*   given, then the ones it returned
    o_expected,           \* what each object holds if none shares a list
    o_target,             \* the object the caller mutates (0: none yet)
    o_ops,                \* the calls made on o_target and the symbols they
                          \*   pushed, peek apart
    o_rt,                 \* the push last made and the pops made since
    o_last,               \* the call of pop or peek made last, if any
    ld_pc,                \* loader: "off", "start", "transitions",
                          \*   "returned", "AutomatonLoadError"
    ld_data,              \* the dictionary _build_automaton_from_dict is given
    ld_automaton,         \* the Automaton it builds (None before)
    ld_index,             \* the transitions of ld_data added so far
    g_lists,              \* generator: the lists of configurations allocated
                          \*   so far, by address, each a list of places in
                          \*   o_configs
    g_frontier,           \* the list its variable frontier refers to
    g_yielded             \* the lists it has yielded, in order

args == <<automaton, initial_stack_symbol, input_string, max_steps,
          max_configs, acceptance_mode, sw_mode>>

sw_vars == <<sw_pc, sw_frontier, sw_step_count, sw_emitted, sw_pruned>>

ac_vars == <<ac_pc, ac_frontier, ac_step_count, ac_result, ac_explored>>

prev_vars == <<sw_prev, ac_prev>>

obj_vars == <<o_pc, o_heap, o_configs, o_expected, o_target, o_ops, o_rt,
              o_last>>

ld_vars == <<ld_pc, ld_data, ld_automaton, ld_index>>

gen_vars == <<g_lists, g_frontier, g_yielded>>

vars == <<args, sw_vars, ac_vars, prev_vars, obj_vars, ld_vars, gen_vars>>

\* No dictionary: the loader is not called.
NoData == [transitions |-> << >>]

\* History entries with which the two drivers start.
SW_START_ENTRY == [text |-> "Configuracao inicial"]

AC_START_ENTRY == [text |-> "Inicio da execucao"]

\* The trace of a result (False, None); a history is never empty.
NoTrace == << >>

Result(accepted, trace) == [accepted |-> accepted, trace |-> trace]

\* No call was made before.
NoCall == [made |-> FALSE]

\* No push is being followed.
NoRoundTrip == [live |-> FALSE, base |-> << >>, seq |-> << >>, popped |-> << >>]

initial_config(A, input, start_entry) ==
    PDAConfig(A.initial_state, input, Stack_new, <<start_entry>>)

Init ==
    /\ \E d \in Definitions :
          /\ automaton = d.automaton
          /\ initial_stack_symbol = d.initial_stack_symbol
    /\ input_string \in Strings(automaton.input_alphabet)
    /\ max_steps \in 0..MaxSteps
    /\ max_configs \in (1..MaxConfigs) \cup {DEFAULT_MAX_CONFIGS}
    /\ acceptance_mode \in AcceptanceModes
    /\ sw_mode \in Modes
    /\ sw_pc = "start"
    /\ sw_frontier = << >>
    /\ sw_step_count = 0
    /\ sw_emitted = << >>
    /\ sw_pruned = << >>
    /\ ac_pc = "start"
    /\ ac_frontier = << >>
    /\ ac_step_count = 0
    /\ ac_result = Result(FALSE, NoTrace)
    /\ ac_explored = << >>
    /\ sw_prev = NoCall
    /\ ac_prev = NoCall
    /\ o_pc = "off"
    /\ o_heap = << >>
    /\ o_configs = << >>
    /\ o_expected = << >>
    /\ o_target = 0
    /\ o_ops = 0
    /\ o_rt = NoRoundTrip
    /\ o_last = NoCall
    /\ ld_pc = "off"
    /\ ld_data = NoData
    /\ ld_automaton = None
    /\ ld_index = 0
    /\ g_lists = << >>
    /\ g_frontier = 0
    /\ g_yielded = << >>

(***************************************************************************)
(* stepwise_run, one action per resumption of the generator                *)
(***************************************************************************)
\* Mutant: the step counter is kept from one call to the next.
SwStart_carrying ==
    /\ sw_pc = "start"
    /\ sw_frontier' = <<initial_config(automaton, input_string, SW_START_ENTRY)>>
    /\ sw_step_count' = sw_step_count
    /\ sw_emitted' = <<sw_frontier'>>
    /\ sw_pruned' = << >>
    /\ sw_pc' = "yielded"
    /\ UNCHANGED <<gen_vars, ld_vars, prev_vars, obj_vars, args, ac_vars>>

\* Up to the first yield.
SwStart ==
    /\ sw_pc = "start"
    /\ sw_frontier' = <<initial_config(automaton, input_string, SW_START_ENTRY)>>
    /\ sw_step_count' = 0
    /\ sw_emitted' = <<sw_frontier'>>
    /\ sw_pruned' = << >>
    /\ sw_pc' = "yielded"
    /\ UNCHANGED <<gen_vars, ld_vars, prev_vars, obj_vars, args, ac_vars>>

\* The step limit is exceeded: RuntimeError.
SwRaise ==
    /\ sw_pc = "yielded"
    /\ sw_frontier # << >>
    /\ step_limit_exceeded(sw_step_count + 1, max_steps)
    /\ sw_step_count' = sw_step_count + 1
    /\ sw_pc' = "RuntimeError"
    /\ UNCHANGED <<gen_vars, ld_vars, prev_vars, obj_vars, args, ac_vars, sw_frontier, sw_emitted, sw_pruned>>

\* A transition applied by simulate_step raises IndexError.
SwIndexError ==
    /\ sw_pc = "yielded"
    /\ sw_frontier # << >>
    /\ ~step_limit_exceeded(sw_step_count + 1, max_steps)
    /\ expand_raises(sw_frontier, automaton)
    /\ sw_step_count' = sw_step_count + 1
    /\ sw_pc' = "IndexError"
    /\ UNCHANGED <<gen_vars, ld_vars, prev_vars, obj_vars, args, ac_vars, sw_frontier, sw_emitted, sw_pruned>>

\* Mutant: the frontier of an expansion is yielded even when it is empty.
SwYield_any ==
    /\ sw_pc = "yielded"
    /\ sw_frontier # << >>
    /\ ~step_limit_exceeded(sw_step_count + 1, max_steps)
    /\ ~expand_raises(sw_frontier, automaton)
    /\ sw_step_count' = sw_step_count + 1
    /\ sw_frontier' = next_frontier_of(sw_frontier, automaton, max_configs)
    /\ sw_pruned' = IF Len(expand(sw_frontier, automaton)) > max_configs
                    THEN expand(sw_frontier, automaton) ELSE << >>
    /\ sw_emitted' = Append(sw_emitted, sw_frontier')
    /\ sw_pc' = "yielded"
    /\ UNCHANGED <<gen_vars, ld_vars, prev_vars, obj_vars, args, ac_vars>>

\* One expansion whose frontier is not empty: it is yielded.
SwYield ==
    /\ sw_pc = "yielded"
    /\ sw_frontier # << >>
    /\ ~step_limit_exceeded(sw_step_count + 1, max_steps)
    /\ ~expand_raises(sw_frontier, automaton)
    /\ next_frontier_of(sw_frontier, automaton, max_configs) # << >>
    /\ sw_step_count' = sw_step_count + 1
    /\ sw_frontier' = next_frontier_of(sw_frontier, automaton, max_configs)
    /\ sw_pruned' = IF Len(expand(sw_frontier, automaton)) > max_configs
                    THEN expand(sw_frontier, automaton) ELSE << >>
    /\ sw_emitted' = Append(sw_emitted, sw_frontier')
    /\ sw_pc' = "yielded"
    /\ UNCHANGED <<gen_vars, ld_vars, prev_vars, obj_vars, args, ac_vars>>

\* Mutant: the generator also ends on a frontier that holds an accepting
\* configuration.
SwExhausted_or_accepted ==
    /\ sw_pc = "yielded"
    /\ sw_frontier # << >>
    /\ ~step_limit_exceeded(sw_step_count + 1, max_steps)
    /\ ~expand_raises(sw_frontier, automaton)
    /\ \/ next_frontier_of(sw_frontier, automaton, max_configs) = << >>
       \/ \E i \in 1..Len(sw_frontier) :
             _is_accepting_configuration(sw_frontier[i], automaton,
                                         acceptance_mode)
    /\ sw_step_count' = sw_step_count + 1
    /\ sw_frontier' = << >>
    /\ sw_pruned' = << >>
    /\ sw_pc' = "done"
    /\ UNCHANGED <<gen_vars, ld_vars, prev_vars, obj_vars, args, ac_vars, sw_emitted>>

\* One expansion whose frontier is empty: the generator ends.
SwExhausted ==
    /\ sw_pc = "yielded"
    /\ sw_frontier # << >>
    /\ ~step_limit_exceeded(sw_step_count + 1, max_steps)
    /\ ~expand_raises(sw_frontier, automaton)
    /\ next_frontier_of(sw_frontier, automaton, max_configs) = << >>
    /\ sw_step_count' = sw_step_count + 1
    /\ sw_frontier' = << >>
    /\ sw_pruned' = << >>
    /\ sw_pc' = "done"
    /\ UNCHANGED <<gen_vars, ld_vars, prev_vars, obj_vars, args, ac_vars, sw_emitted>>

(***************************************************************************)
(* accepts, one action per iteration of its loop                           *)
(***************************************************************************)
AcValueError ==
    /\ ac_pc = "start"
    /\ invalid_acceptance_mode(acceptance_mode)
    /\ ac_pc' = "ValueError"
    /\ UNCHANGED <<gen_vars, ld_vars, prev_vars, obj_vars, args, sw_vars, ac_frontier, ac_step_count, ac_result,
                   ac_explored>>

\* Mutant: accepts starts with the declared initial stack symbol on the stack.
AcStart_seeded ==
    /\ ac_pc = "start"
    /\ ~invalid_acceptance_mode(acceptance_mode)
    /\ ac_frontier' =
          <<PDAConfig(automaton.initial_state, input_string,
                      IF initial_stack_symbol = None THEN Stack_new
                      ELSE Stack_push(Stack_new, <<initial_stack_symbol>>),
                      <<AC_START_ENTRY>>)>>
    /\ ac_step_count' = 0
    /\ ac_pc' = "loop"
    /\ UNCHANGED <<gen_vars, ld_vars, prev_vars, obj_vars, args, sw_vars, ac_result, ac_explored>>

AcStart ==
    /\ ac_pc = "start"
    /\ ~invalid_acceptance_mode(acceptance_mode)
    /\ ac_frontier' = <<initial_config(automaton, input_string, AC_START_ENTRY)>>
    /\ ac_step_count' = 0
    /\ ac_pc' = "loop"
    /\ UNCHANGED <<gen_vars, ld_vars, prev_vars, obj_vars, args, sw_vars, ac_result, ac_explored>>

\* The frontier is empty: (False, None).
AcReject ==
    /\ ac_pc = "loop"
    /\ ac_frontier = << >>
    /\ ac_result' = Result(FALSE, NoTrace)
    /\ ac_pc' = "returned"
    /\ UNCHANGED <<gen_vars, ld_vars, prev_vars, obj_vars, args, sw_vars, ac_frontier, ac_step_count, ac_explored>>

AcRaise ==
    /\ ac_pc = "loop"
    /\ ac_frontier # << >>
    /\ step_limit_exceeded(ac_step_count + 1, max_steps)
    /\ ac_step_count' = ac_step_count + 1
    /\ ac_pc' = "RuntimeError"
    /\ UNCHANGED <<gen_vars, ld_vars, prev_vars, obj_vars, args, sw_vars, ac_frontier, ac_result, ac_explored>>

accepting_indexes(frontier, A, mode) ==
    {i \in 1..Len(frontier) : _is_accepting_configuration(frontier[i], A, mode)}

\* Mutant: the last accepting configuration of the frontier is returned.
first_accepting_last(frontier, A, mode) ==
    frontier[CHOOSE i \in accepting_indexes(frontier, A, mode) :
                 \A j \in accepting_indexes(frontier, A, mode) : i >= j]

\* The first configuration of the frontier, in its order, that is accepting.
first_accepting(frontier, A, mode) ==
    frontier[CHOOSE i \in accepting_indexes(frontier, A, mode) :
                 \A j \in accepting_indexes(frontier, A, mode) : i <= j]

AcAccept ==
    /\ ac_pc = "loop"
    /\ ac_frontier # << >>
    /\ ~step_limit_exceeded(ac_step_count + 1, max_steps)
    /\ accepting_indexes(ac_frontier, automaton, acceptance_mode) # {}
    /\ ac_step_count' = ac_step_count + 1
    /\ ac_explored' = Append(ac_explored, ac_frontier)
    /\ ac_result' = Result(TRUE, first_accepting(ac_frontier, automaton,
                                                 acceptance_mode).history)
    /\ ac_pc' = "returned"
    /\ UNCHANGED <<gen_vars, ld_vars, prev_vars, obj_vars, args, sw_vars, ac_frontier>>

AcIndexError ==
    /\ ac_pc = "loop"
    /\ ac_frontier # << >>
    /\ ~step_limit_exceeded(ac_step_count + 1, max_steps)
    /\ accepting_indexes(ac_frontier, automaton, acceptance_mode) = {}
    /\ expand_raises(ac_frontier, automaton)
    /\ ac_step_count' = ac_step_count + 1
    /\ ac_explored' = Append(ac_explored, ac_frontier)
    /\ ac_pc' = "IndexError"
    /\ UNCHANGED <<gen_vars, ld_vars, prev_vars, obj_vars, args, sw_vars, ac_frontier, ac_result>>

\* Mutant: the expansion takes the transitions it has applied out of the
\* automaton's list.
AcExpand_consuming ==
    /\ ac_pc = "loop"
    /\ ac_frontier # << >>
    /\ ~step_limit_exceeded(ac_step_count + 1, max_steps)
    /\ accepting_indexes(ac_frontier, automaton, acceptance_mode) = {}
    /\ ~expand_raises(ac_frontier, automaton)
    /\ ac_step_count' = ac_step_count + 1
    /\ ac_explored' = Append(ac_explored, ac_frontier)
    /\ ac_frontier' = next_frontier_of(ac_frontier, automaton,
                                       DEFAULT_MAX_CONFIGS)
    /\ automaton' =
           [automaton EXCEPT !.transitions =
               SelectSeq(@, LAMBDA t :
                   \A i \in 1..Len(ac_frontier) :
                       t.from_state # ac_frontier[i].state)]
    /\ UNCHANGED <<gen_vars, ld_vars, prev_vars, obj_vars, initial_stack_symbol, input_string,
                   max_steps, max_configs, acceptance_mode, sw_mode, sw_vars,
                   ac_pc, ac_result>>

AcExpand ==
    /\ ac_pc = "loop"
    /\ ac_frontier # << >>
    /\ ~step_limit_exceeded(ac_step_count + 1, max_steps)
    /\ accepting_indexes(ac_frontier, automaton, acceptance_mode) = {}
    /\ ~expand_raises(ac_frontier, automaton)
    /\ ac_step_count' = ac_step_count + 1
    /\ ac_explored' = Append(ac_explored, ac_frontier)
    /\ ac_frontier' = next_frontier_of(ac_frontier, automaton,
                                       DEFAULT_MAX_CONFIGS)
    /\ UNCHANGED <<gen_vars, ld_vars, prev_vars, obj_vars, args, sw_vars, ac_pc, ac_result>>

Next ==
    \/ SwStart
    \/ SwRaise
    \/ SwIndexError
    \/ SwYield
    \/ SwExhausted
    \/ AcValueError
    \/ AcStart
    \/ AcReject
    \/ AcRaise
    \/ AcAccept
    \/ AcIndexError
    \/ AcExpand

Spec == Init /\ [][Next]_vars

(***************************************************************************)
(* A second call.  Each call runs in a frame of its own, whose locals hold *)
(* nothing of the call before until the code assigns them.                 *)
(***************************************************************************)
\* stepwise_run is called again, the generator of the first call having
\* ended or raised; what the new call has emitted is nothing yet.
SwRestart ==
    /\ sw_pc \in {"done", "RuntimeError", "IndexError"}
    /\ ~sw_prev.made
    /\ sw_prev' = [made |-> TRUE, emitted |-> sw_emitted, pc |-> sw_pc]
    /\ sw_pc' = "start"
    /\ sw_emitted' = << >>
    /\ sw_pruned' = << >>
    /\ UNCHANGED <<gen_vars, ld_vars, args, sw_frontier, sw_step_count, ac_vars, ac_prev,
                   obj_vars>>

\* accepts is called again, the first call having returned or raised; the
\* new call has checked and returned nothing yet.
AcRestart ==
    /\ ac_pc \in {"returned", "RuntimeError", "ValueError", "IndexError"}
    /\ ~ac_prev.made
    /\ ac_prev' = [made |-> TRUE, explored |-> ac_explored, pc |-> ac_pc,
                   result |-> ac_result]
    /\ ac_pc' = "start"
    /\ ac_result' = Result(FALSE, NoTrace)
    /\ ac_explored' = << >>
    /\ UNCHANGED <<gen_vars, ld_vars, args, sw_vars, sw_prev, ac_frontier, ac_step_count,
                   obj_vars>>

RestartNext ==
    \/ Next
    \/ SwRestart
    \/ AcRestart

RestartSpec == Init /\ [][RestartNext]_vars

(***************************************************************************)
(* Objects.  The lists of Python are mutable and shared by reference: a    *)
(* heap is the sequence of the lists allocated so far, and a PDAConfig     *)
(* object holds its state and the addresses of its three lists             *)
(* (remaining_input, the _items of its Stack, history).                    *)
(***************************************************************************)
ObjLen == 1

MaxPush == 2

MaxOps == 4

\* The value of an object: its state and the contents of its lists.
Deref(heap, obj) ==
    PDAConfig(obj.state, heap[obj.remaining_input], heap[obj.stack],
              heap[obj.history])

\* Mutant: the copy holds the history list of the original.
PDAConfig_copy_obj_shared_history(heap, obj) ==
    [heap |-> heap \o <<heap[obj.remaining_input], Stack_copy(heap[obj.stack])>>,
     config |-> PDAConfig(obj.state, Len(heap) + 1, Len(heap) + 2,
                          obj.history)]

\* Mutant: copy returns the object it is called on.
PDAConfig_copy_obj_same(heap, obj) == [heap |-> heap, config |-> obj]

\* Mutant: the copy holds the Stack of the original.
PDAConfig_copy_obj_shared_stack(heap, obj) ==
    [heap |-> heap \o <<heap[obj.remaining_input], heap[obj.history]>>,
     config |-> PDAConfig(obj.state, Len(heap) + 1, obj.stack,
                          Len(heap) + 2)]

\* PDAConfig.copy: three new lists, remaining_input.copy(), stack.copy()
\* and history.copy().
PDAConfig_copy_obj(heap, obj) ==
    [heap |-> heap \o <<heap[obj.remaining_input],
                        Stack_copy(heap[obj.stack]), heap[obj.history]>>,
     config |-> PDAConfig(obj.state, Len(heap) + 1, Len(heap) + 2,
                          Len(heap) + 3)]

\* _apply_transition on objects: the copy is mutated in place; raised when
\* consume_input or stack.pop raises IndexError.
_apply_transition_obj(heap, obj, transition) ==
    LET cp == PDAConfig_copy_obj(heap, obj)
        new_config == [cp.config EXCEPT !.state = transition.to_state]
        consumes == transition.read \notin {EPSILON, WILDCARD_EMPTY}
        pops == transition.pop # EPSILON
        h1 == cp.heap
        raises1 == consumes /\ consume_input_raises(Deref(h1, new_config))
        h2 == IF consumes /\ ~raises1
              THEN [h1 EXCEPT ![new_config.remaining_input] =
                        consume_input(Deref(h1, new_config)).remaining_input]
              ELSE h1
        raises2 == pops /\ Stack_pop_raises(h2[new_config.stack])
        h3 == IF pops /\ ~raises2
              THEN [h2 EXCEPT ![new_config.stack] = Stack_pop_rest(@)]
              ELSE h2
        h4 == IF transition.push # << >>
              THEN [h3 EXCEPT ![new_config.stack] =
                        Stack_push(@, transition.push)]
              ELSE h3
        h5 == [h4 EXCEPT ![new_config.history] =
                   add_history(Deref(h4, new_config),
                               history_entry(transition)).history]
    IN  [raised |-> raises1 \/ raises2,
         heap |-> IF raises1 THEN h1 ELSE IF raises2 THEN h2 ELSE h5,
         config |-> new_config]

\* The loop of simulate_step over the transitions applicable to config, the
\* input symbol and the stack top having been read before the loop.
RECURSIVE apply_all_obj(_, _, _)
apply_all_obj(heap, obj, ts) ==
    IF ts = << >>
    THEN [raised |-> FALSE, heap |-> heap, configs |-> << >>]
    ELSE LET r == _apply_transition_obj(heap, obj, Head(ts))
             rest == apply_all_obj(r.heap, obj, Tail(ts))
         IN  IF r.raised
             THEN [raised |-> TRUE, heap |-> r.heap, configs |-> << >>]
             ELSE [raised |-> rest.raised, heap |-> rest.heap,
                   configs |-> <<r.config>> \o rest.configs]

simulate_step_obj(heap, obj, A) ==
    apply_all_obj(heap, obj, applicable_transitions(Deref(heap, obj), A))

\* The sequences over a set of symbols, up to n symbols.
SeqsUpTo(symbols, n) == UNION {[1..k -> symbols] : k \in 0..n}

\* The configurations simulate_step is called on.
ParentConfigs(A) ==
    {PDAConfig(state, remaining_input, stack, <<SW_START_ENTRY>>) :
        state \in A.states,
        remaining_input \in SeqsUpTo(A.input_alphabet, ObjLen),
        stack \in SeqsUpTo(A.stack_alphabet, ObjLen)}

ObjInit ==
    /\ \E d \in Definitions :
          /\ automaton = d.automaton
          /\ initial_stack_symbol = d.initial_stack_symbol
    /\ input_string = << >>
    /\ max_steps = 0
    /\ max_configs = DEFAULT_MAX_CONFIGS
    /\ acceptance_mode = "final_state"
    /\ sw_mode = "step"
    /\ sw_pc = "off"
    /\ sw_frontier = << >>
    /\ sw_step_count = 0
    /\ sw_emitted = << >>
    /\ sw_pruned = << >>
    /\ ac_pc = "off"
    /\ ac_frontier = << >>
    /\ ac_step_count = 0
    /\ ac_result = Result(FALSE, NoTrace)
    /\ ac_explored = << >>
    /\ sw_prev = NoCall
    /\ ac_prev = NoCall
    /\ \E parent \in ParentConfigs(automaton) :
          /\ o_heap = <<parent.remaining_input, parent.stack, parent.history>>
          /\ o_configs = <<PDAConfig(parent.state, 1, 2, 3)>>
          /\ o_expected = <<parent>>
    /\ o_pc = "built"
    /\ o_target = 0
    /\ o_ops = 0
    /\ o_rt = NoRoundTrip
    /\ o_last = NoCall
    /\ ld_pc = "off"
    /\ ld_data = NoData
    /\ ld_automaton = None
    /\ ld_index = 0
    /\ g_lists = << >>
    /\ g_frontier = 0
    /\ g_yielded = << >>

\* simulate_step(o_configs[1], automaton) returns its list of successors.
OSimulateStep ==
    /\ o_pc = "built"
    /\ LET r == simulate_step_obj(o_heap, o_configs[1], automaton)
       IN  /\ ~r.raised
           /\ o_heap' = r.heap
           /\ o_configs' = o_configs \o r.configs
    /\ o_expected' = o_expected \o simulate_step(o_expected[1], automaton)
    /\ o_pc' = "forked"
    /\ UNCHANGED <<gen_vars, ld_vars, prev_vars, args, sw_vars, ac_vars, o_target, o_ops, o_rt,
                   o_last>>

\* simulate_step(o_configs[1], automaton) raises IndexError.
OSimulateStepRaises ==
    /\ o_pc = "built"
    /\ LET r == simulate_step_obj(o_heap, o_configs[1], automaton)
       IN  /\ r.raised
           /\ o_heap' = r.heap
    /\ o_pc' = "IndexError"
    /\ UNCHANGED <<gen_vars, ld_vars, prev_vars, args, sw_vars, ac_vars, o_configs, o_expected,
                   o_target, o_ops, o_rt, o_last>>

\* The caller may call object i: it is the one it has been calling.
Callable(i) ==
    /\ o_pc = "forked"
    /\ o_ops < MaxOps
    /\ o_target \in {0, i}

\* A call counts for one, a push for each symbol it pushes.
Cost(seq) == IF seq = << >> THEN 1 ELSE Len(seq)

\* o_configs[i].stack.push(seq)
OPush(i, seq) ==
    /\ Callable(i)
    /\ o_ops + Cost(seq) <= MaxOps
    /\ o_rt' = [live |-> TRUE, base |-> o_heap[o_configs[i].stack],
                seq |-> seq, popped |-> << >>]
    /\ o_last' = NoCall
    /\ o_heap' = [o_heap EXCEPT ![o_configs[i].stack] = Stack_push(@, seq)]
    /\ o_expected' = [o_expected EXCEPT ![i].stack = Stack_push(@, seq)]
    /\ o_target' = i
    /\ o_ops' = o_ops + Cost(seq)
    /\ UNCHANGED <<gen_vars, ld_vars, prev_vars, args, sw_vars, ac_vars, o_pc, o_configs>>

\* o_configs[i].stack.pop() returns the top.
OPop(i) ==
    /\ Callable(i)
    /\ ~Stack_pop_raises(o_heap[o_configs[i].stack])
    /\ o_rt' = IF o_rt.live /\ Len(o_rt.popped) < Len(o_rt.seq)
               THEN [o_rt EXCEPT !.popped =
                        Append(@, Stack_pop_value(o_heap[o_configs[i].stack]))]
               ELSE NoRoundTrip
    /\ o_last' = [made |-> TRUE, op |-> "pop", raised |-> FALSE,
                  before |-> o_heap[o_configs[i].stack],
                  value |-> Stack_pop_value(o_heap[o_configs[i].stack])]
    /\ o_heap' = [o_heap EXCEPT ![o_configs[i].stack] = Stack_pop_rest(@)]
    /\ o_expected' = [o_expected EXCEPT ![i].stack = Stack_pop_rest(@)]
    /\ o_target' = i
    /\ o_ops' = o_ops + 1
    /\ UNCHANGED <<gen_vars, ld_vars, prev_vars, args, sw_vars, ac_vars, o_pc, o_configs>>

\* o_configs[i].stack.pop() raises IndexError.
OPopRaises(i) ==
    /\ Callable(i)
    /\ Stack_pop_raises(o_heap[o_configs[i].stack])
    /\ o_last' = [made |-> TRUE, op |-> "pop", raised |-> TRUE,
                  before |-> o_heap[o_configs[i].stack], value |-> None]
    /\ o_pc' = "OpIndexError"
    /\ o_target' = i
    /\ o_ops' = o_ops + 1
    /\ UNCHANGED <<gen_vars, ld_vars, prev_vars, args, sw_vars, ac_vars, o_heap, o_configs,
                   o_expected, o_rt>>

\* o_configs[i].stack.peek() returns the top.
OPeek(i) ==
    /\ Callable(i)
    /\ ~Stack_peek_raises(o_heap[o_configs[i].stack])
    /\ o_last' = [made |-> TRUE, op |-> "peek", raised |-> FALSE,
                  before |-> o_heap[o_configs[i].stack],
                  value |-> Stack_peek(o_heap[o_configs[i].stack])]
    /\ o_target' = i
    /\ UNCHANGED <<gen_vars, ld_vars, prev_vars, args, sw_vars, ac_vars, o_pc, o_heap, o_configs,
                   o_expected, o_ops, o_rt>>

\* o_configs[i].stack.peek() raises IndexError.
OPeekRaises(i) ==
    /\ Callable(i)
    /\ Stack_peek_raises(o_heap[o_configs[i].stack])
    /\ o_last' = [made |-> TRUE, op |-> "peek", raised |-> TRUE,
                  before |-> o_heap[o_configs[i].stack], value |-> None]
    /\ o_pc' = "OpIndexError"
    /\ o_target' = i
    /\ UNCHANGED <<gen_vars, ld_vars, prev_vars, args, sw_vars, ac_vars, o_heap, o_configs,
                   o_expected, o_ops, o_rt>>

\* o_configs[i].consume_input() returns the head.
OConsume(i) ==
    /\ Callable(i)
    /\ ~consume_input_raises(Deref(o_heap, o_configs[i]))
    /\ o_heap' = [o_heap EXCEPT ![o_configs[i].remaining_input] =
                     consume_input(Deref(o_heap, o_configs[i])).remaining_input]
    /\ o_expected' = [o_expected EXCEPT ![i] = consume_input(@)]
    /\ o_last' = NoCall
    /\ o_target' = i
    /\ o_ops' = o_ops + 1
    /\ UNCHANGED <<gen_vars, ld_vars, prev_vars, args, sw_vars, ac_vars, o_pc, o_configs, o_rt>>

\* o_configs[i].consume_input() raises IndexError.
OConsumeRaises(i) ==
    /\ Callable(i)
    /\ consume_input_raises(Deref(o_heap, o_configs[i]))
    /\ o_last' = NoCall
    /\ o_pc' = "OpIndexError"
    /\ o_target' = i
    /\ o_ops' = o_ops + 1
    /\ UNCHANGED <<gen_vars, ld_vars, prev_vars, args, sw_vars, ac_vars, o_heap, o_configs,
                   o_expected, o_rt>>

\* o_configs[i].add_history(SW_START_ENTRY)
OAddHistory(i) ==
    /\ Callable(i)
    /\ o_heap' = [o_heap EXCEPT ![o_configs[i].history] =
                     add_history(Deref(o_heap, o_configs[i]),
                                 SW_START_ENTRY).history]
    /\ o_expected' = [o_expected EXCEPT ![i] = add_history(@, SW_START_ENTRY)]
    /\ o_last' = NoCall
    /\ o_target' = i
    /\ o_ops' = o_ops + 1
    /\ UNCHANGED <<gen_vars, ld_vars, prev_vars, args, sw_vars, ac_vars, o_pc, o_configs, o_rt>>

ObjNext ==
    \/ OSimulateStep
    \/ OSimulateStepRaises
    \/ \E i \in 1..Len(o_configs) :
          \E seq \in SeqsUpTo(automaton.stack_alphabet, MaxPush) : OPush(i, seq)
    \/ \E i \in 1..Len(o_configs) : OPop(i)
    \/ \E i \in 1..Len(o_configs) : OPopRaises(i)
    \/ \E i \in 1..Len(o_configs) : OPeek(i)
    \/ \E i \in 1..Len(o_configs) : OPeekRaises(i)
    \/ \E i \in 1..Len(o_configs) : OConsume(i)
    \/ \E i \in 1..Len(o_configs) : OConsumeRaises(i)
    \/ \E i \in 1..Len(o_configs) : OAddHistory(i)

ObjSpec == ObjInit /\ [][ObjNext]_vars

(***************************************************************************)
(* config.loader: _build_automaton_from_dict and _add_transition_from_dict *)
(* on a dictionary that has every required field.  A push given as a      *)
(* string is [str |-> TRUE, symbols |-> its characters], one given as a    *)
(* list is [str |-> FALSE, symbols |-> its elements].                      *)
(***************************************************************************)
MaxTransitions == 1

StrPush(symbols) == [str |-> TRUE, symbols |-> symbols]

ListPush(symbols) == [str |-> FALSE, symbols |-> symbols]

\* push = list(push) if push and push != 'ε' else [], for a string.
push_to_list(push) ==
    IF push.str /\ push.symbols = <<EPSILON>> THEN << >> ELSE push.symbols

\* The checks made on the sets of the dictionary, in the code's order.
header_error(data) ==
    IF data.states = {} THEN "Conjunto de estados vazio"
    ELSE IF data.initial_state = "" THEN "Estado inicial nao especificado"
    ELSE IF data.initial_state \notin data.states
         THEN "Estado inicial nao esta no conjunto de estados"
    ELSE IF ~(data.final_states \subseteq data.states)
         THEN "Estados finais desconhecidos"
    ELSE IF \E i \in 1..Len(data.initial_stack) :
                data.initial_stack[i] \notin data.stack_alphabet
         THEN "Simbolo de pilha inicial desconhecido"
    ELSE None

\* Mutant: only the symbols read and popped are validated.
_add_transition_error_symbols_only(A, trans_data) ==
    IF trans_data.read # EPSILON /\ trans_data.read \notin A.input_alphabet
    THEN "simbolo de entrada nao esta no alfabeto"
    ELSE IF trans_data.pop # EPSILON /\ trans_data.pop \notin A.stack_alphabet
    THEN "simbolo de pilha nao esta no alfabeto de pilha"
    ELSE None

\* The error _add_transition_from_dict raises on trans_data, None if it adds
\* the transition.
_add_transition_error(A, trans_data) ==
    LET push == push_to_list(trans_data.push)
    IN  IF trans_data.from \notin A.states
        THEN "estado origem desconhecido"
        ELSE IF trans_data.to \notin A.states
        THEN "estado destino desconhecido"
        ELSE IF trans_data.read # EPSILON /\ trans_data.read \notin A.input_alphabet
        THEN "simbolo de entrada nao esta no alfabeto"
        ELSE IF trans_data.pop # EPSILON /\ trans_data.pop \notin A.stack_alphabet
        THEN "simbolo de pilha nao esta no alfabeto de pilha"
        ELSE IF \E i \in 1..Len(push) : push[i] \notin A.stack_alphabet
        THEN "simbolo de push nao esta no alfabeto de pilha"
        ELSE None

\* Automaton.add_transition.
add_transition(A, from_state, to_state, read, pop, push) ==
    [A EXCEPT !.transitions =
        Append(@, Transition(from_state, to_state, read, pop, push))]

\* The dictionaries the loader is given.
Headers ==
    {[states |-> {"q0", "q1"}, input_alphabet |-> ia, stack_alphabet |-> sa,
      initial_state |-> "q0", final_states |-> {"q1"}, initial_stack |-> << >>] :
        ia \in {{"a"}, {"a", WILDCARD_EMPTY}},
        sa \in {{"A"}, {"A", WILDCARD_EMPTY}}}
    \cup
    {[states |-> st, input_alphabet |-> {"a"}, stack_alphabet |-> {"A"},
      initial_state |-> i, final_states |-> f, initial_stack |-> s] :
        st \in {{}, {"q0"}}, i \in {"", "q0", "q1"}, f \in {{}, {"q1"}},
        s \in {<<"A">>, <<"Z">>}}

\* Transitions between declared states with every read, pop and push of the
\* model, and two with an undeclared endpoint.
TransitionData ==
    {[from |-> "q0", to |-> "q1", read |-> r, pop |-> p, push |-> u] :
        r \in {EPSILON, WILDCARD_EMPTY, "a", "z"},
        p \in {EPSILON, WILDCARD_EMPTY, "A", "Z"},
        u \in {StrPush(<<EPSILON>>), ListPush(<<"A">>),
               StrPush(<<"A", WILDCARD_EMPTY>>)}}
    \cup
    {[from |-> ends[1], to |-> ends[2], read |-> EPSILON, pop |-> EPSILON,
      push |-> ListPush(<< >>)] : ends \in {<<"q9", "q1">>, <<"q0", "q9">>}}

\* A dictionary with a faulty header is given no transitions: it is rejected
\* before they are looked at.
TransitionLists(h) ==
    IF header_error(h) = None
    THEN UNION {[1..n -> TransitionData] : n \in 0..MaxTransitions}
    ELSE {<< >>}

DataOf(h, ts) ==
    [states |-> h.states, input_alphabet |-> h.input_alphabet,
     stack_alphabet |-> h.stack_alphabet, initial_state |-> h.initial_state,
     final_states |-> h.final_states, initial_stack |-> h.initial_stack,
     transitions |-> ts]

LoadData == UNION {{DataOf(h, ts) : ts \in TransitionLists(h)} : h \in Headers}

\* _build_automaton_from_dict is called; no driver is.
LoadInit ==
    /\ automaton = Parens
    /\ initial_stack_symbol = NoSymbol
    /\ input_string = << >>
    /\ max_steps = 0
    /\ max_configs = DEFAULT_MAX_CONFIGS
    /\ acceptance_mode = "final_state"
    /\ sw_mode = "step"
    /\ sw_pc = "off"
    /\ sw_frontier = << >>
    /\ sw_step_count = 0
    /\ sw_emitted = << >>
    /\ sw_pruned = << >>
    /\ ac_pc = "off"
    /\ ac_frontier = << >>
    /\ ac_step_count = 0
    /\ ac_result = Result(FALSE, NoTrace)
    /\ ac_explored = << >>
    /\ sw_prev = NoCall
    /\ ac_prev = NoCall
    /\ o_pc = "off"
    /\ o_heap = << >>
    /\ o_configs = << >>
    /\ o_expected = << >>
    /\ o_target = 0
    /\ o_ops = 0
    /\ o_rt = NoRoundTrip
    /\ o_last = NoCall
    /\ ld_pc = "start"
    /\ ld_data \in LoadData
    /\ ld_automaton = None
    /\ ld_index = 0
    /\ g_lists = << >>
    /\ g_frontier = 0
    /\ g_yielded = << >>

\* One of the basic validations fails.
LdHeaderError ==
    /\ ld_pc = "start"
    /\ header_error(ld_data) # None
    /\ ld_pc' = "AutomatonLoadError"
    /\ UNCHANGED <<gen_vars, prev_vars, obj_vars, args, sw_vars, ac_vars, ld_data,
                   ld_automaton, ld_index>>

\* They pass: the Automaton is created without transitions.
LdCreate ==
    /\ ld_pc = "start"
    /\ header_error(ld_data) = None
    /\ ld_automaton' = Automaton(ld_data.states, ld_data.input_alphabet,
                                 ld_data.stack_alphabet, ld_data.initial_state,
                                 ld_data.final_states, << >>)
    /\ ld_pc' = "transitions"
    /\ UNCHANGED <<gen_vars, prev_vars, obj_vars, args, sw_vars, ac_vars, ld_data,
                   ld_index>>

\* _add_transition_from_dict adds the next transition of the dictionary.
LdAddTransition ==
    /\ ld_pc = "transitions"
    /\ ld_index < Len(ld_data.transitions)
    /\ LET trans_data == ld_data.transitions[ld_index + 1]
       IN  /\ _add_transition_error(ld_automaton, trans_data) = None
           /\ ld_automaton' =
                 add_transition(ld_automaton, trans_data.from, trans_data.to,
                                trans_data.read, trans_data.pop,
                                push_to_list(trans_data.push))
    /\ ld_index' = ld_index + 1
    /\ UNCHANGED <<gen_vars, prev_vars, obj_vars, args, sw_vars, ac_vars, ld_pc,
                   ld_data>>

\* _add_transition_from_dict raises on the next transition.
LdTransitionError ==
    /\ ld_pc = "transitions"
    /\ ld_index < Len(ld_data.transitions)
    /\ _add_transition_error(ld_automaton,
                             ld_data.transitions[ld_index + 1]) # None
    /\ ld_pc' = "AutomatonLoadError"
    /\ UNCHANGED <<gen_vars, prev_vars, obj_vars, args, sw_vars, ac_vars, ld_data,
                   ld_automaton, ld_index>>

\* Every transition is added: the automaton is returned.
LdReturn ==
    /\ ld_pc = "transitions"
    /\ ld_index = Len(ld_data.transitions)
    /\ ld_pc' = "returned"
    /\ UNCHANGED <<gen_vars, prev_vars, obj_vars, args, sw_vars, ac_vars, ld_data,
                   ld_automaton, ld_index>>

LoadNext ==
    \/ LdHeaderError
    \/ LdCreate
    \/ LdAddTransition
    \/ LdTransitionError
    \/ LdReturn

LoadSpec == LoadInit /\ [][LoadNext]_vars

(***************************************************************************)
(* stepwise_run on objects: the configurations are objects of o_configs    *)
(* whose lists live in o_heap, the frontiers are lists of g_lists, and     *)
(* sw_emitted records the values the consumer saw at each yield.           *)
(***************************************************************************)
\* The values of the configurations a list refers to, in its order.
ValuesOf(heap, configs, refs) ==
    [i \in 1..Len(refs) |-> Deref(heap, configs[refs[i]])]

\* The only element of a set of one element.
TheOne(S) == CHOOSE x \in S : TRUE

\* next_frontier.extend(r) where r is what simulate_step returned for the
\* object at hand: acc holds the heap, the objects and the list next_frontier
\* as they are before the call.
extended_with(acc, r) ==
    IF r.raised
    THEN [raised |-> TRUE, heap |-> r.heap, configs |-> acc.configs,
          next |-> << >>]
    ELSE [raised |-> FALSE, heap |-> r.heap,
          configs |-> acc.configs \o r.configs,
          next |-> acc.next \o
                   [i \in 1..Len(r.configs) |-> Len(acc.configs) + i]]

\* The loop "for config in frontier: next_frontier.extend(simulate_step(..))"
\* over the objects refs refers to, from left to right; it stops at the
\* first call that raises.
RECURSIVE expand_obj(_, _, _)
expand_obj(acc, refs, A) ==
    IF refs = << >> \/ acc.raised THEN acc
    ELSE TheOne({expand_obj(extended_with(acc, r), Tail(refs), A) :
                    r \in {simulate_step_obj(acc.heap, acc.configs[Head(refs)],
                                             A)}})

\* _prune_configurations on a list of objects: the list it returns.
_prune_configurations_obj(heap, configs, refs, A, limit) ==
    LET tagged == [i \in 1..Len(refs) |->
                      [state |-> configs[refs[i]].state,
                       remaining_input |-> heap[configs[refs[i]].remaining_input],
                       stack |-> heap[configs[refs[i]].stack],
                       ref |-> refs[i]]]
        kept == slice_to(sorted_reverse(tagged, A), limit)
    IN  [i \in 1..Len(kept) |-> kept[i].ref]

\* What the expansion r leaves when "frontier = next_frontier" is reached.
pruned_obj(r, A, limit) ==
    [raised |-> r.raised, heap |-> r.heap, configs |-> r.configs,
     next |-> IF Len(r.next) > limit
              THEN _prune_configurations_obj(r.heap, r.configs, r.next, A,
                                             limit)
              ELSE r.next]

\* One pass of the loop of stepwise_run up to "frontier = next_frontier".
step_obj(heap, configs, refs, A, limit) ==
    TheOne({pruned_obj(r, A, limit) :
               r \in {expand_obj([raised |-> FALSE, heap |-> heap,
                                  configs |-> configs, next |-> << >>],
                                 refs, A)}})

\* stepwise_run is called; accepts and the loader are not.
GenInit ==
    /\ \E d \in Definitions :
          /\ automaton = d.automaton
          /\ initial_stack_symbol = d.initial_stack_symbol
    /\ input_string \in Strings(automaton.input_alphabet)
    /\ max_steps \in 0..MaxSteps
    /\ max_configs \in (1..MaxConfigs) \cup {DEFAULT_MAX_CONFIGS}
    /\ acceptance_mode = "final_state"
    /\ sw_mode = "step"
    /\ sw_pc = "start"
    /\ sw_frontier = << >>
    /\ sw_step_count = 0
    /\ sw_emitted = << >>
    /\ sw_pruned = << >>
    /\ ac_pc = "off"
    /\ ac_frontier = << >>
    /\ ac_step_count = 0
    /\ ac_result = Result(FALSE, NoTrace)
    /\ ac_explored = << >>
    /\ sw_prev = NoCall
    /\ ac_prev = NoCall
    /\ o_pc = "off"
    /\ o_heap = << >>
    /\ o_configs = << >>
    /\ o_expected = << >>
    /\ o_target = 0
    /\ o_ops = 0
    /\ o_rt = NoRoundTrip
    /\ o_last = NoCall
    /\ ld_pc = "off"
    /\ ld_data = NoData
    /\ ld_automaton = None
    /\ ld_index = 0
    /\ g_lists = << >>
    /\ g_frontier = 0
    /\ g_yielded = << >>

\* Up to the first yield: the initial configuration, the list frontier and
\* its copy, which is yielded.
GStart ==
    /\ sw_pc = "start"
    /\ o_heap' = <<input_string, Stack_new, <<SW_START_ENTRY>>>>
    /\ o_configs' = <<PDAConfig(automaton.initial_state, 1, 2, 3)>>
    /\ g_lists' = <<<<1>>, <<1>>>>
    /\ g_frontier' = 1
    /\ g_yielded' = <<2>>
    /\ sw_emitted' = <<ValuesOf(o_heap', o_configs', g_lists'[2])>>
    /\ sw_step_count' = 0
    /\ sw_pc' = "yielded"
    /\ UNCHANGED <<ld_vars, prev_vars, args, ac_vars, sw_frontier, sw_pruned,
                   o_pc, o_expected, o_target, o_ops, o_rt, o_last>>

\* The step limit is exceeded: RuntimeError.
GRaise ==
    /\ sw_pc = "yielded"
    /\ g_lists[g_frontier] # << >>
    /\ step_limit_exceeded(sw_step_count + 1, max_steps)
    /\ sw_step_count' = sw_step_count + 1
    /\ sw_pc' = "RuntimeError"
    /\ UNCHANGED <<gen_vars, ld_vars, prev_vars, obj_vars, args, ac_vars,
                   sw_frontier, sw_emitted, sw_pruned>>

\* A transition applied by simulate_step raises IndexError, the successors
\* made before it left behind.
GIndexError ==
    /\ sw_pc = "yielded"
    /\ g_lists[g_frontier] # << >>
    /\ ~step_limit_exceeded(sw_step_count + 1, max_steps)
    /\ \E r \in {step_obj(o_heap, o_configs, g_lists[g_frontier], automaton,
                          max_configs)} :
           /\ r.raised
           /\ o_heap' = r.heap
           /\ o_configs' = r.configs
    /\ sw_step_count' = sw_step_count + 1
    /\ sw_pc' = "IndexError"
    /\ UNCHANGED <<gen_vars, ld_vars, prev_vars, args, ac_vars, sw_frontier,
                   sw_emitted, sw_pruned, o_pc, o_expected, o_target, o_ops,
                   o_rt, o_last>>

\* One expansion whose frontier is not empty: frontier refers to the new
\* list, and a copy of it is yielded.
GYield ==
    /\ sw_pc = "yielded"
    /\ g_lists[g_frontier] # << >>
    /\ ~step_limit_exceeded(sw_step_count + 1, max_steps)
    /\ \E r \in {step_obj(o_heap, o_configs, g_lists[g_frontier], automaton,
                          max_configs)} :
           /\ ~r.raised
           /\ r.next # << >>
           /\ o_heap' = r.heap
           /\ o_configs' = r.configs
           /\ g_lists' = g_lists \o <<r.next, r.next>>
           /\ g_frontier' = Len(g_lists) + 1
           /\ g_yielded' = Append(g_yielded, Len(g_lists) + 2)
           /\ sw_emitted' =
                 Append(sw_emitted, ValuesOf(r.heap, r.configs, r.next))
    /\ sw_step_count' = sw_step_count + 1
    /\ UNCHANGED <<ld_vars, prev_vars, args, ac_vars, sw_pc, sw_frontier,
                   sw_pruned, o_pc, o_expected, o_target, o_ops, o_rt, o_last>>

\* One expansion whose frontier is empty: the generator ends.
GExhausted ==
    /\ sw_pc = "yielded"
    /\ g_lists[g_frontier] # << >>
    /\ ~step_limit_exceeded(sw_step_count + 1, max_steps)
    /\ \E r \in {step_obj(o_heap, o_configs, g_lists[g_frontier], automaton,
                          max_configs)} :
           /\ ~r.raised
           /\ r.next = << >>
           /\ o_heap' = r.heap
           /\ o_configs' = r.configs
           /\ g_lists' = Append(g_lists, r.next)
           /\ g_frontier' = Len(g_lists) + 1
    /\ sw_step_count' = sw_step_count + 1
    /\ sw_pc' = "done"
    /\ UNCHANGED <<ld_vars, prev_vars, args, ac_vars, sw_frontier, sw_emitted,
                   sw_pruned, g_yielded, o_pc, o_expected, o_target, o_ops,
                   o_rt, o_last>>

GenNext ==
    \/ GStart
    \/ GRaise
    \/ GIndexError
    \/ GYield
    \/ GExhausted

GenSpec == GenInit /\ [][GenNext]_vars

(***************************************************************************)
(* Properties                                                              *)
(***************************************************************************)
ValidMode == ~invalid_acceptance_mode(acceptance_mode)

\* accepts has answered (True, history) on the k-th frontier it checked.
AcceptedAt(k) ==
    /\ k = Len(ac_explored)
    /\ ac_pc = "returned"
    /\ ac_result.accepted

InFinalState(config) == config.state \in automaton.final_states

InputLeft(config) == config.remaining_input # << >>

HoldsOnlyMarker(config) ==
    /\ initial_stack_symbol # NoSymbol
    /\ config.stack = <<initial_stack_symbol>>

Some(frontier, P(_)) == \E i \in 1..Len(frontier) : P(frontier[i])

\* C1 as claimed: in mode final_state a frontier checked by accepts that holds
\* a configuration in a final state, whatever input it has left, is answered
\* (True, history) at that step.
C1_Original ==
    acceptance_mode = "final_state" =>
        \A k \in 1..Len(ac_explored) :
            Some(ac_explored[k], InFinalState) => AcceptedAt(k)

\* C1 amended: in mode final_state accepts answers (True, history) on a
\* frontier exactly when it holds a configuration that is in a final state and
\* has no input left; a final state reached with input left is not accepted.
C1_FinalStateNeedsEmptyInput ==
    acceptance_mode = "final_state" =>
        \A k \in 1..Len(ac_explored) :
            Some(ac_explored[k],
                 LAMBDA c : InFinalState(c) /\ ~InputLeft(c)) <=> AcceptedAt(k)

\* C1 witness: accepts has gone past a frontier that holds a configuration in
\* a final state with input left, and has rejected.
C1_Witness ==
    /\ acceptance_mode = "final_state"
    /\ ac_pc = "returned"
    /\ ~ac_result.accepted
    /\ \E k \in 1..Len(ac_explored) :
          Some(ac_explored[k], LAMBDA c : InFinalState(c) /\ InputLeft(c))

\* C2 as claimed: in mode empty_stack a configuration is accepting if and only
\* if it has no input left and its stack is empty or holds the initial stack
\* symbol alone.
C2_Original ==
    acceptance_mode = "empty_stack" =>
        \A k \in 1..Len(ac_explored) :
            Some(ac_explored[k],
                 LAMBDA c : /\ ~InputLeft(c)
                            /\ (c.stack = << >> \/ HoldsOnlyMarker(c)))
                <=> AcceptedAt(k)

\* C2 amended: in mode empty_stack a configuration is accepting if and only if
\* it has no input left and its stack is empty; a stack that holds the initial
\* stack symbol alone is not empty.
C2_EmptyStackNeedsEmptyStack ==
    acceptance_mode = "empty_stack" =>
        \A k \in 1..Len(ac_explored) :
            Some(ac_explored[k],
                 LAMBDA c : ~InputLeft(c) /\ c.stack = << >>) <=> AcceptedAt(k)

\* C2 witness: accepts has gone past a configuration with no input left whose
\* stack holds the initial stack symbol alone, and has rejected.
C2_Witness ==
    /\ acceptance_mode = "empty_stack"
    /\ ac_pc = "returned"
    /\ ~ac_result.accepted
    /\ \E k \in 1..Len(ac_explored) :
          Some(ac_explored[k], LAMBDA c : ~InputLeft(c) /\ HoldsOnlyMarker(c))

Accepting(config) ==
    _is_accepting_configuration(config, automaton, acceptance_mode)

\* C3: a result (True, h) has for h the history of the first accepting
\* configuration, in frontier order, of the earliest checked frontier that
\* holds one; the result is (False, None) exactly when the frontier has become
\* empty and no checked frontier held an accepting configuration.
C3_AcceptsResult ==
    /\ (ac_pc = "returned" /\ ac_result.accepted) =>
          /\ ac_explored # << >>
          /\ \A k \in 1..(Len(ac_explored) - 1) : ~Some(ac_explored[k], Accepting)
          /\ LET last == ac_explored[Len(ac_explored)]
             IN  \E i \in 1..Len(last) :
                    /\ Accepting(last[i])
                    /\ \A j \in 1..(i - 1) : ~Accepting(last[j])
                    /\ ac_result.trace = last[i].history
    /\ (ac_pc = "returned" /\ ~ac_result.accepted) =>
          /\ ac_result.trace = NoTrace
          /\ ac_frontier = << >>
          /\ \A k \in 1..Len(ac_explored) : ~Some(ac_explored[k], Accepting)
    /\ (ac_pc \in {"returned", "RuntimeError", "IndexError"}
            /\ ac_frontier = << >>) =>
          (ac_pc = "returned" /\ ~ac_result.accepted)
    /\ (ac_pc = "loop" /\ ac_frontier = << >>) =>
          (ENABLED AcReject /\ ~ENABLED (AcRaise \/ AcAccept \/ AcExpand))

\* C3 witness: accepts has answered True on a frontier that holds two accepting
\* configurations, with the history of the first.
C3_Witness ==
    /\ ac_pc = "returned"
    /\ ac_result.accepted
    /\ Len(ac_explored) > 1
    /\ Cardinality(accepting_indexes(ac_explored[Len(ac_explored)], automaton,
                                     acceptance_mode)) > 1

\* C3 second case, reached as well: (False, None) after an empty frontier.
C3_WitnessRejected ==
    /\ ac_pc = "returned"
    /\ ~ac_result.accepted
    /\ Len(ac_explored) > 1

\* Balanced parentheses: the depth never falls below zero and ends at zero.
RECURSIVE Depth(_, _)
Depth(s, d) ==
    IF d < 0 THEN -1
    ELSE IF s = << >> THEN d
    ELSE Depth(Tail(s), IF Head(s) = "(" THEN d + 1 ELSE d - 1)

Balanced(s) == Depth(s, 0) = 0

\* C4: on the one-state parenthesis automaton, in mode empty_stack and with
\* a step limit above the length of the input, accepts answers
\* (True, a history) on every balanced input and (False, None) on every other,
\* and never ends with an error.
C4_Parens ==
    (/\ automaton = Parens
     /\ acceptance_mode = "empty_stack"
     /\ max_steps > Len(input_string)) =>
        /\ ac_pc \notin {"RuntimeError", "IndexError", "ValueError"}
        /\ ac_step_count <= Len(input_string) + 1
        /\ ac_pc = "loop" => ENABLED (AcReject \/ AcAccept \/ AcExpand)
        /\ ac_pc = "returned" =>
              /\ ac_result.accepted <=> Balanced(input_string)
              /\ ac_result.accepted <=> ac_result.trace # NoTrace

\* C4 witness: "(())" has been accepted with a history of its four
\* transitions.
C4_Witness ==
    /\ automaton = Parens
    /\ acceptance_mode = "empty_stack"
    /\ input_string = <<"(", "(", ")", ")">>
    /\ ac_pc = "returned"
    /\ ac_result.accepted
    /\ Len(ac_result.trace) = 5

\* C4 second case, reached as well: "(()" has been rejected.
C4_WitnessRejected ==
    /\ automaton = Parens
    /\ acceptance_mode = "empty_stack"
    /\ input_string = <<"(", "(", ")">>
    /\ ac_pc = "returned"
    /\ ~ac_result.accepted

\* C5 as claimed, for a positive step limit: accepts never expands a frontier
\* that holds an accepting configuration and answers True on it, whatever the
\* step k at which it appears; an initial configuration that is accepting is
\* accepted with the start entry as its whole history.
C5_Claim ==
    (ValidMode /\ max_steps > 0) =>
        /\ \A k \in 1..(Len(ac_explored) - 1) : ~Some(ac_explored[k], Accepting)
        /\ (ac_pc = "loop" /\ Some(ac_frontier, Accepting)) => ENABLED AcAccept
        /\ ac_pc \in {"RuntimeError", "IndexError"} =>
              ~Some(ac_frontier, Accepting)
        /\ (/\ Accepting(initial_config(automaton, input_string, AC_START_ENTRY))
            /\ ac_pc \notin {"start", "loop"}) =>
              /\ ac_pc = "returned"
              /\ ac_result = Result(TRUE, <<AC_START_ENTRY>>)

C7_StepLimit ==
    /\ Len(sw_emitted) <= max_steps + 1
    /\ sw_pc = "RuntimeError" =>
          /\ sw_step_count = max_steps + 1
          /\ sw_frontier # << >>
          /\ Len(sw_emitted) = max_steps + 1
    /\ (sw_pc # "yielded" /\ Len(sw_emitted) = max_steps + 1) =>
          sw_pc = "RuntimeError"
    /\ (sw_pc = "yielded" /\ Len(sw_emitted) = max_steps + 1) =>
          (ENABLED SwRaise /\ ~ENABLED (SwYield \/ SwExhausted \/ SwIndexError))
    /\ sw_pc = "done" => Len(sw_emitted) <= max_steps
    /\ Len(ac_explored) <= max_steps
    /\ ac_pc = "RuntimeError" =>
          /\ ac_step_count = max_steps + 1
          /\ ac_frontier # << >>
          /\ Len(ac_explored) = max_steps
    /\ (ac_pc = "loop" /\ Len(ac_explored) = max_steps /\ ac_frontier # << >>) =>
          /\ ENABLED AcRaise
          /\ ~ENABLED (AcReject \/ AcAccept \/ AcExpand \/ AcIndexError)

\* C7 witness: both drivers have ended with the step-limit error after at
\* least two expansions.
C7_Witness ==
    /\ max_steps >= 2
    /\ sw_pc = "RuntimeError"
    /\ ac_pc = "RuntimeError"

Count(frontier, sig) ==
    Cardinality({i \in 1..Len(frontier) : config_signature(frontier[i]) = sig})

RECURSIVE Visits(_, _)
Visits(frontiers, sig) ==
    IF frontiers = << >> THEN 0
    ELSE Count(Head(frontiers), sig) + Visits(Tail(frontiers), sig)

C9_Case ==
    /\ automaton = Loop
    /\ ValidMode
    /\ ~Accepting(initial_config(automaton, input_string, AC_START_ENTRY))

RanksAtLeast(c, d) ==
    LET fc == InFinalState(c)
        fd == InFinalState(d)
        ic == Len(c.remaining_input)
        id == Len(d.remaining_input)
    IN  \/ fc /\ ~fd
        \/ (fc <=> fd) /\ ic < id
        \/ (fc <=> fd) /\ ic = id /\ Len(c.stack) <= Len(d.stack)

SeqBag(seq) ==
    [x \in {seq[i] : i \in 1..Len(seq)} |->
        Cardinality({i \in 1..Len(seq) : seq[i] = x})]

\* C10: an expansion of more than max_configs successors is pruned to exactly
\* max_configs of them, each kept configuration ranking at least as high as
\* each discarded one.
C10_PruneKeepsTop ==
    (sw_pruned # << >> /\ max_configs > 0) =>
        LET kept == SeqBag(sw_frontier)
            discarded == SeqBag(sw_pruned) (-) kept
        IN  /\ Len(sw_pruned) > max_configs
            /\ Len(sw_frontier) = max_configs
            /\ kept \sqsubseteq SeqBag(sw_pruned)
            /\ \A c \in BagToSet(kept) : \A d \in BagToSet(discarded) :
                  RanksAtLeast(c, d)

\* C10 witness: a pruning has kept a configuration that came after a
\* discarded one in the expansion.
C10_Witness ==
    /\ sw_pruned # << >>
    /\ max_configs > 0
    /\ sw_pc = "yielded"
    /\ sw_frontier # SubSeq(sw_pruned, 1, max_configs)
    /\ \E i \in 1..Len(sw_pruned) : \A j \in 1..Len(sw_frontier) :
          sw_frontier[j] # sw_pruned[i]

(***************************************************************************)
(* C11: with max_configs > 0 every frontier stepwise_run emits holds at    *)
(* most max_configs configurations; an expansion that exceeds max_configs  *)
(* is pruned to max_configs configurations and yielded, the run going on:  *)
(* exceeding the frontier size raises nothing.                             *)
(***************************************************************************)
ExpansionExceeds ==
    /\ sw_pc = "yielded"
    /\ sw_frontier # << >>
    /\ ~step_limit_exceeded(sw_step_count + 1, max_steps)
    /\ ~expand_raises(sw_frontier, automaton)
    /\ Len(expand(sw_frontier, automaton)) > max_configs

C12_Claim ==
    /\ sw_pc # "IndexError"
    /\ ac_pc # "IndexError"
    /\ \A k \in 1..Len(sw_emitted) : \A i \in 1..Len(sw_emitted[k]) :
          LET config == sw_emitted[k][i]
              ts == applicable_transitions(config, automaton)
          IN  \A j \in 1..Len(ts) : ~_apply_transition_raises(config, ts[j])

\* What simulate_step passes to the applicability test for a configuration.
CurrentInput(config) == get_current_input_symbol(config)

StackTop(config) ==
    IF Stack_peek_raises(config.stack) THEN None ELSE Stack_peek(config.stack)

Applicable(transition, config) ==
    _is_transition_applicable(transition, CurrentInput(config),
                              StackTop(config))

AllTransitions == {automaton.transitions[j] : j \in 1..Len(automaton.transitions)}

\* The configurations of the frontiers stepwise_run has emitted.
EmittedConfigs ==
    UNION {{sw_emitted[k][i] : i \in 1..Len(sw_emitted[k])} :
              k \in 1..Len(sw_emitted)}

\* The input guard as stated: 'ε' always, '?' on the empty input only, any
\* other read on a non-empty input whose head it equals.
InputGuard(transition, config) ==
    IF transition.read = EPSILON THEN TRUE
    ELSE IF transition.read = WILDCARD_EMPTY
         THEN config.remaining_input = << >>
    ELSE /\ config.remaining_input # << >>
         /\ Head(config.remaining_input) = transition.read

(***************************************************************************)
(* C13: the input guard of the applicability test is satisfied always for  *)
(* read 'ε', exactly on the empty input for read '?', and for any other    *)
(* read exactly when the input is not empty and its head equals read, the  *)
(* input symbols that coincide with the reserved tokens included: a        *)
(* transition is applicable iff this guard holds and it would be           *)
(* applicable with read 'ε'.                                               *)
(***************************************************************************)
C13_Claim ==
    \A config \in EmittedConfigs : \A transition \in AllTransitions :
        Applicable(transition, config)
            <=> /\ InputGuard(transition, config)
                /\ Applicable([transition EXCEPT !.read = EPSILON], config)

\* The stack guard as stated, under the policy by which '?' is satisfied on
\* the empty stack only (no driver seeds a bottom symbol).
StackGuard(transition, config) ==
    IF transition.pop = EPSILON THEN TRUE
    ELSE IF transition.pop = WILDCARD_EMPTY THEN config.stack = << >>
    ELSE /\ config.stack # << >>
         /\ config.stack[Len(config.stack)] = transition.pop

(***************************************************************************)
(* C14: the stack guard of the applicability test is satisfied always for  *)
(* pop 'ε', for pop '?' exactly on the empty stack, and for any other pop  *)
(* exactly when the stack is not empty and its top equals pop; a           *)
(* transition is applicable iff this guard holds and it would be           *)
(* applicable with pop 'ε', that is iff both guards hold.                  *)
(***************************************************************************)
C14_Claim ==
    \A config \in EmittedConfigs : \A transition \in AllTransitions :
        Applicable(transition, config)
            <=> /\ StackGuard(transition, config)
                /\ Applicable([transition EXCEPT !.pop = EPSILON], config)

\* The lists an object holds.
ListsOf(obj) == {obj.remaining_input, obj.stack, obj.history}

(***************************************************************************)
(* C15: simulate_step never mutates the configuration it is given: once it *)
(* has returned or raised, and before the caller touches anything, the     *)
(* state, remaining_input, stack and history of that configuration are     *)
(* what they were at the call.                                             *)
(***************************************************************************)
C15_ParentUnchanged ==
    (o_pc \in {"forked", "IndexError"} /\ o_ops = 0) =>
        Deref(o_heap, o_configs[1]) = o_expected[1]

\* simulate_step returned two successors that differ from the configuration
\* given in input, in stack and in history.
C15_Witness ==
    /\ o_pc = "forked"
    /\ o_ops = 0
    /\ Len(o_configs) >= 3
    /\ \E i \in 2..Len(o_configs) :
          LET child == Deref(o_heap, o_configs[i])
          IN  /\ child.remaining_input # o_expected[1].remaining_input
              /\ child.stack # o_expected[1].stack
              /\ child.history # o_expected[1].history
              /\ child.state # o_expected[1].state

(***************************************************************************)
(* C16: forking never aliases: the configuration given to simulate_step    *)
(* and the successors it returned hold pairwise distinct lists for stack,  *)
(* remaining input and history, so whatever the caller then does to one of *)
(* them leaves every other one as it was.                                  *)
(***************************************************************************)
C16_NoAliasing ==
    o_pc \in {"forked", "OpIndexError"} =>
        /\ \A i \in 1..Len(o_configs) :
              /\ Cardinality(ListsOf(o_configs[i])) = 3
              /\ \A j \in 1..Len(o_configs) :
                    i # j => ListsOf(o_configs[i]) \cap ListsOf(o_configs[j]) = {}
        /\ \A i \in 1..Len(o_configs) :
              Deref(o_heap, o_configs[i]) = o_expected[i]

\* One of several successors has had its stack, input and history changed.
C16_Witness ==
    /\ o_pc = "forked"
    /\ Len(o_configs) >= 3
    /\ o_target >= 2
    /\ o_ops = MaxOps
    /\ \E i \in 2..Len(o_configs) :
          /\ i # o_target
          /\ o_expected[i].stack # o_expected[o_target].stack
          /\ o_expected[i].history # o_expected[o_target].history

(***************************************************************************)
(* C17: push(seq) followed by len(seq) pops returns the symbols of seq in  *)
(* reverse order, none of the pops failing, and leaves the stack as it was *)
(* before the push.                                                        *)
(***************************************************************************)
Reverse(seq) == [k \in 1..Len(seq) |-> seq[Len(seq) + 1 - k]]

C17_RoundTrip ==
    o_rt.live =>
        LET items == o_heap[o_configs[o_target].stack]
        IN  /\ Len(o_rt.popped) < Len(o_rt.seq) => ~Stack_pop_raises(items)
            /\ o_rt.popped = SubSeq(Reverse(o_rt.seq), 1, Len(o_rt.popped))
            /\ Len(o_rt.popped) = Len(o_rt.seq) => items = o_rt.base

\* Two distinct symbols were pushed on a stack that was not empty, and both
\* popped.
C17_Witness ==
    /\ o_rt.live
    /\ o_rt.base # << >>
    /\ Len(o_rt.seq) = 2
    /\ o_rt.seq[1] # o_rt.seq[2]
    /\ Len(o_rt.popped) = 2

(***************************************************************************)
(* C18: called with a mode other than 'final_state' and 'empty_stack',     *)
(* accepts raises ValueError, for every automaton and input, and does so   *)
(* before it creates a configuration, applies a transition or checks       *)
(* acceptance: it never enters its loop and returns nothing.               *)
(***************************************************************************)
C18_InvalidMode ==
    acceptance_mode \notin {"final_state", "empty_stack"} =>
        /\ ac_pc \in {"start", "ValueError"}
        /\ ac_frontier = << >>
        /\ ac_explored = << >>
        /\ ac_step_count = 0
        /\ ac_result = Result(FALSE, NoTrace)

\* accepts has raised ValueError on the empty input, whose initial
\* configuration the mode 'empty_stack' accepts.
C18_Witness ==
    /\ ac_pc = "ValueError"
    /\ acceptance_mode = "other"
    /\ _is_accepting_configuration(
           initial_config(automaton, input_string, AC_START_ENTRY),
           automaton, "empty_stack")
    /\ input_string = << >>

(***************************************************************************)
(* C19: a non-positive limit is rejected before any simulation starts:     *)
(* with max_steps <= 0 or max_configs <= 0 stepwise_run emits no frontier  *)
(* and accepts checks none, neither driver applying a transition.          *)
(***************************************************************************)
C19_Claim ==
    (max_steps <= 0 \/ max_configs <= 0) =>
        /\ sw_pc \in {"start", "RuntimeError"}
        /\ sw_emitted = << >>
        /\ ac_pc \in {"start", "loop", "RuntimeError", "ValueError"}
        /\ ac_explored = << >>

(***************************************************************************)
(* C20: the first frontier of every run is the singleton holding the       *)
(* initial configuration: the initial state, the whole input, a history of *)
(* one start entry, and a stack holding the initial stack symbol when the  *)
(* definition declares one, empty otherwise.                               *)
(***************************************************************************)
SeededStack ==
    IF initial_stack_symbol = NoSymbol THEN Stack_new
    ELSE Stack_push(Stack_new, <<initial_stack_symbol>>)

C20_Claim ==
    /\ sw_emitted # << >> =>
          sw_emitted[1] = <<PDAConfig(automaton.initial_state, input_string,
                                      SeededStack, <<SW_START_ENTRY>>)>>
    /\ ac_explored # << >> =>
          ac_explored[1] = <<PDAConfig(automaton.initial_state, input_string,
                                       SeededStack, <<AC_START_ENTRY>>)>>

\* The configurations of the frontier stepwise_run emitted before the k-th
\* from which child may come: those whose history child's history extends.
LastEntry(config) == config.history[Len(config.history)]

ParentsOf(k, child) ==
    {sw_emitted[k - 1][i] : i \in
        {j \in 1..Len(sw_emitted[k - 1]) :
            sw_emitted[k - 1][j].history =
                SubSeq(child.history, 1, Len(child.history) - 1)}}

\* The transitions whose application child's last history entry records.
TransitionsOf(child) ==
    {t \in AllTransitions : history_entry(t) = LastEntry(child)}

\* Every configuration emitted after the first frontier comes from a
\* configuration of the frontier before by a transition that leaves its state
\* and satisfies Effect.
EverySuccessor(Effect(_, _, _)) ==
    \A k \in 2..Len(sw_emitted) : \A i \in 1..Len(sw_emitted[k]) :
        LET child == sw_emitted[k][i]
        IN  /\ ParentsOf(k, child) # {}
            /\ TransitionsOf(child) # {}
            /\ \A parent \in ParentsOf(k, child) :
                  \A t \in TransitionsOf(child) :
                      t.from_state = parent.state => Effect(parent, t, child)

(***************************************************************************)
(* C21: a successor has the state the transition leads to; when the        *)
(* transition reads a concrete symbol its remaining input is the parent's  *)
(* without its head, and when it reads 'ε' or '?' it is the parent's.      *)
(***************************************************************************)
InputEffect(parent, t, child) ==
    /\ child.state = t.to_state
    /\ IF t.read \in {EPSILON, WILDCARD_EMPTY}
       THEN child.remaining_input = parent.remaining_input
       ELSE /\ parent.remaining_input # << >>
            /\ child.remaining_input =
                   SubSeq(parent.remaining_input, 2,
                          Len(parent.remaining_input))

C21_InputEffect == EverySuccessor(InputEffect)

\* A successor by a reading transition, with input left, beside a successor
\* of the same parent by a transition that reads nothing.
C21_Witness ==
    \E k \in 2..Len(sw_emitted) : \E i, j \in 1..Len(sw_emitted[k]) :
        /\ LastEntry(sw_emitted[k][i]).read \notin {EPSILON, WILDCARD_EMPTY}
        /\ Len(sw_emitted[k][i].remaining_input) >= 1
        /\ LastEntry(sw_emitted[k][j]).read = EPSILON
        /\ ParentsOf(k, sw_emitted[k][i]) = ParentsOf(k, sw_emitted[k][j])

(***************************************************************************)
(* C22: a successor's stack is the parent's, less its top when the         *)
(* transition pops a concrete symbol (which is that top) and untouched by  *)
(* a pop of 'ε', followed by the symbols of push in their order, the last  *)
(* of them on top; an empty push adds nothing.                             *)
(***************************************************************************)
StackEffect(parent, t, child) ==
    t.pop # WILDCARD_EMPTY =>
        LET popped == IF t.pop = EPSILON THEN parent.stack
                      ELSE SubSeq(parent.stack, 1, Len(parent.stack) - 1)
        IN  /\ t.pop # EPSILON =>
                  /\ parent.stack # << >>
                  /\ parent.stack[Len(parent.stack)] = t.pop
            /\ Len(child.stack) = Len(popped) + Len(t.push)
            /\ \A n \in 1..Len(popped) : child.stack[n] = popped[n]
            /\ \A n \in 1..Len(t.push) :
                  child.stack[Len(popped) + n] = t.push[n]

C22_StackEffect == EverySuccessor(StackEffect)

\* A successor by a transition that pops a concrete symbol off a stack of
\* several symbols and pushes two.
C22_Witness ==
    \E k \in 2..Len(sw_emitted) : \E i \in 1..Len(sw_emitted[k]) :
        LET child == sw_emitted[k][i]
        IN  /\ LastEntry(child).pop \notin {EPSILON, WILDCARD_EMPTY}
            /\ Len(LastEntry(child).push) = 2
            /\ Len(child.stack) >= 3
            /\ child.stack[1] # child.stack[Len(child.stack)]

\* Sequence s is the beginning of sequence t.
IsPrefix(s, t) ==
    /\ Len(s) <= Len(t)
    /\ \A k \in 1..Len(s) : s[k] = t[k]

C24_NoEmptyFrontier ==
    /\ \A k \in 1..Len(sw_emitted) : sw_emitted[k] # << >>
    /\ sw_pc = "done" =>
          /\ sw_frontier = << >>
          /\ ~expand_raises(sw_emitted[Len(sw_emitted)], automaton)
          /\ expand(sw_emitted[Len(sw_emitted)], automaton) = << >>
    /\ (/\ sw_pc = "yielded"
        /\ ~step_limit_exceeded(sw_step_count + 1, max_steps)
        /\ ~expand_raises(sw_frontier, automaton)
        /\ expand(sw_frontier, automaton) = << >>) =>
          /\ sw_frontier = sw_emitted[Len(sw_emitted)]
          /\ next_frontier_of(sw_frontier, automaton, max_configs) = << >>

\* The generator has ended after several frontiers, the last of them holding
\* configurations that are all dead ends.
C24_Witness ==
    /\ sw_pc = "done"
    /\ Len(sw_emitted) >= 3
    /\ Len(sw_emitted[Len(sw_emitted)]) >= 2

(***************************************************************************)
(* C25: in mode 'rand' the frontier collapses to one chosen configuration  *)
(* at each step: every frontier stepwise_run emits holds at most one       *)
(* configuration, and the step limit still ends the run.                   *)
(***************************************************************************)
C25_Claim ==
    sw_mode = "rand" =>
        /\ \A k \in 1..Len(sw_emitted) : Len(sw_emitted[k]) <= 1
        /\ sw_step_count <= max_steps + 1

\* The n-th smallest of a set of indexes.
NthOf(indexes, n) ==
    CHOOSE j \in indexes : Cardinality({i \in indexes : i < j}) = n - 1

\* The places, in the automaton's list, of the transitions that leave a state,
\* and of those among them that are applicable to a configuration.
IndexesFrom(state) ==
    {j \in 1..Len(automaton.transitions) :
        automaton.transitions[j].from_state = state}

ApplicableIndexes(config) ==
    {j \in IndexesFrom(config.state) :
        Applicable(automaton.transitions[j], config)}

(***************************************************************************)
(* C26: get_transitions_from(state) returns exactly the transitions whose  *)
(* from_state is that state, in the order they were added; simulate_step   *)
(* returns one successor for each of them that is applicable to the        *)
(* configuration, none for the others, in that same order.                 *)
(***************************************************************************)
C26_OneSuccessorEach ==
    /\ \A state \in automaton.states :
          LET from == get_transitions_from(automaton, state)
          IN  /\ Len(from) = Cardinality(IndexesFrom(state))
              /\ \A n \in 1..Len(from) :
                    from[n] = automaton.transitions[NthOf(IndexesFrom(state), n)]
    /\ \A config \in EmittedConfigs :
          ~simulate_step_raises(config, automaton) =>
              LET next_configs == simulate_step(config, automaton)
                  indexes == ApplicableIndexes(config)
              IN  /\ Len(next_configs) = Cardinality(indexes)
                  /\ \A n \in 1..Len(next_configs) :
                        LET t == automaton.transitions[NthOf(indexes, n)]
                        IN  /\ LastEntry(next_configs[n]) = history_entry(t)
                            /\ next_configs[n].state = t.to_state
                            /\ SubSeq(next_configs[n].history, 1,
                                      Len(config.history)) = config.history
                            /\ Len(next_configs[n].history) =
                                   Len(config.history) + 1

\* A frontier of one configuration to which four of the automaton's five
\* transitions are applicable, followed by the frontier of its four
\* successors.
C26_Witness ==
    \E k \in 1..(Len(sw_emitted) - 1) :
        /\ Len(sw_emitted[k]) = 1
        /\ Cardinality(ApplicableIndexes(sw_emitted[k][1])) = 4
        /\ Len(automaton.transitions) = 5
        /\ sw_emitted[k + 1] = simulate_step(sw_emitted[k][1], automaton)

(***************************************************************************)
(* C27: pop and peek on an empty stack raise IndexError and leave the      *)
(* stack empty; on a stack that is not empty pop removes and returns its   *)
(* top, the symbol pushed last, and peek returns that symbol and leaves    *)
(* the stack as it was.                                                    *)
(***************************************************************************)
C27_PopPeek ==
    o_last.made =>
        LET items == o_heap[o_configs[o_target].stack]
            before == o_last.before
        IN  /\ o_last.raised <=> before = << >>
            /\ o_last.raised => (items = << >> /\ o_pc = "OpIndexError")
            /\ ~o_last.raised =>
                  /\ o_last.value = before[Len(before)]
                  /\ o_last.op = "pop" =>
                        /\ Len(items) = Len(before) - 1
                        /\ \A n \in 1..Len(items) : items[n] = before[n]
                  /\ o_last.op = "peek" => items = before
            /\ (~o_last.raised /\ o_rt.live /\ o_rt.seq # << >>
                    /\ (o_last.op = "peek" => o_rt.popped = << >>)
                    /\ (o_last.op = "pop" => Len(o_rt.popped) = 1)) =>
                  o_last.value = o_rt.seq[Len(o_rt.seq)]

\* peek has returned the top of a stack of two different symbols.
C27_Witness ==
    /\ o_last.made
    /\ o_last.op = "peek"
    /\ ~o_last.raised
    /\ Len(o_last.before) >= 2
    /\ o_last.before[1] # o_last.value

\* pop has returned the top of such a stack, and pop and peek have raised on
\* an empty one.
C27_WitnessPop ==
    /\ o_last.made
    /\ o_last.op = "pop"
    /\ ~o_last.raised
    /\ Len(o_last.before) >= 2
    /\ o_last.before[1] # o_last.value

C27_WitnessPopRaised == o_last.made /\ o_last.op = "pop" /\ o_last.raised

C27_WitnessPeekRaised == o_last.made /\ o_last.op = "peek" /\ o_last.raised

Successors(configs) ==
    UNION {{_apply_transition(c, t) :
                t \in {u \in AllTransitions :
                          /\ u.from_state = c.state
                          /\ Applicable(u, c)
                          /\ ~_apply_transition_raises(c, u)}} :
           c \in configs}

\* The configurations at the end of the paths of n applicable transitions
\* from the initial configuration of accepts.
RECURSIVE ReachedBy(_)
ReachedBy(n) ==
    IF n = 0
    THEN {initial_config(automaton, input_string, AC_START_ENTRY)}
    ELSE Successors(ReachedBy(n - 1))

\* Some path of at most n applicable transitions from the initial
\* configuration ends in an accepting configuration.
AcceptingPath(n) ==
    \E k \in 0..n : \E c \in ReachedBy(k) : Accepting(c)

(***************************************************************************)
(* C29: a dead end does not cause rejection: accepts returns True exactly  *)
(* when some path of applicable transitions from the initial configuration *)
(* reaches an accepting configuration within the step limit, whatever      *)
(* configurations of the same frontiers have no successors (no pruning     *)
(* occurs in accepts on these runs).                                       *)
(***************************************************************************)
C29_Claim ==
    (/\ ValidMode
     /\ max_steps > 0
     /\ ac_pc \in {"returned", "RuntimeError", "IndexError"}) =>
        ((ac_pc = "returned" /\ ac_result.accepted)
            <=> AcceptingPath(max_steps))


\* What the acceptance mode asks of a configuration besides an empty input.
ModeCondition(config) ==
    IF acceptance_mode = "final_state"
    THEN InFinalState(config)
    ELSE config.stack = << >>

\* The configuration of the last frontier checked whose history accepts
\* returned.
Answered(config) == config.history = ac_result.trace

\* C30: in both acceptance modes no configuration with input left is accepting.
\* Whenever accepts answers (True, history), the configuration whose history
\* it returns has no input left and meets the mode's condition (a final state
\* in 'final_state', an empty stack in 'empty_stack'); a checked frontier whose
\* configurations meeting the mode's condition all have input left is not
\* accepted; and the helper says False of every checked configuration with
\* input left, in either mode.
C30_InputLeftNeverAccepting ==
    ValidMode =>
        \A k \in 1..Len(ac_explored) :
            /\ AcceptedAt(k) =>
                  /\ Some(ac_explored[k], Answered)
                  /\ \A i \in 1..Len(ac_explored[k]) :
                        Answered(ac_explored[k][i]) =>
                            /\ ~InputLeft(ac_explored[k][i])
                            /\ ModeCondition(ac_explored[k][i])
            /\ (\A i \in 1..Len(ac_explored[k]) :
                    ModeCondition(ac_explored[k][i]) =>
                        InputLeft(ac_explored[k][i])) => ~AcceptedAt(k)
            /\ \A i \in 1..Len(ac_explored[k]) :
                  InputLeft(ac_explored[k][i]) =>
                      \A m \in {"final_state", "empty_stack"} :
                          ~_is_accepting_configuration(ac_explored[k][i],
                                                       automaton, m)

\* C30 witness: accepts has answered True in mode empty_stack after checking,
\* and passing, a frontier that held a configuration with an empty stack and
\* input left.
C30_Witness ==
    /\ acceptance_mode = "empty_stack"
    /\ ac_pc = "returned"
    /\ ac_result.accepted
    /\ \E k \in 1..(Len(ac_explored) - 1) :
          Some(ac_explored[k],
               LAMBDA c : c.stack = << >> /\ InputLeft(c))


\* A read or pop that names a symbol: neither 'ε' nor the empty test '?'.
Concrete(symbol) == symbol \notin {EPSILON, WILDCARD_EMPTY}

\* The only grounds on which C31 lets the loader reject a transition.
RejectedAsClaimed(trans_data) ==
    \/ trans_data.from \notin ld_data.states
    \/ trans_data.to \notin ld_data.states
    \/ Concrete(trans_data.read) /\ trans_data.read \notin ld_data.input_alphabet
    \/ Concrete(trans_data.pop) /\ trans_data.pop \notin ld_data.stack_alphabet
    \/ \E i \in 1..Len(push_to_list(trans_data.push)) :
          push_to_list(trans_data.push)[i] \notin ld_data.stack_alphabet

\* The loader has stopped on the transition after the ld_index it added.
LdRejected == ld_pc = "AutomatonLoadError" /\ header_error(ld_data) = None

\* C31 as claimed: the loader rejects a transition only when an endpoint is
\* not a declared state, a concrete read is outside the input alphabet, or a
\* concrete pop or a push symbol is outside the stack alphabet; a read or pop
\* of '?' is accepted like 'ε' whether or not '?' is in the alphabet.  So the
\* transition the loader stops on has one of these faults, and none of those
\* it added has.
C31_Claim ==
    /\ LdRejected => RejectedAsClaimed(ld_data.transitions[ld_index + 1])
    /\ \A i \in 1..ld_index : ~RejectedAsClaimed(ld_data.transitions[i])


\* The dictionary a definition file of the automaton A holds.
as_data(A) ==
    DataOf([states |-> A.states, input_alphabet |-> A.input_alphabet,
            stack_alphabet |-> A.stack_alphabet,
            initial_state |-> A.initial_state,
            final_states |-> A.final_states, initial_stack |-> << >>],
           [i \in 1..Len(A.transitions) |->
               [from |-> A.transitions[i].from_state,
                to |-> A.transitions[i].to_state,
                read |-> A.transitions[i].read,
                pop |-> A.transitions[i].pop,
                push |-> ListPush(A.transitions[i].push)]])

\* The automaton passes every validation of the loader.
LoaderAccepts(A) ==
    /\ header_error(as_data(A)) = None
    /\ \A i \in 1..Len(A.transitions) :
          _add_transition_error(A, as_data(A).transitions[i]) = None

\* The configurations of the frontiers accepts has checked.
ExploredConfigs ==
    UNION {{ac_explored[k][i] : i \in 1..Len(ac_explored[k])} :
              k \in 1..Len(ac_explored)}

WellFormed(config) ==
    /\ config.state \in automaton.states
    /\ \A i \in 1..Len(config.stack) : config.stack[i] \in automaton.stack_alphabet

\* C32: when the automaton passes the loader's validation, every configuration
\* of every frontier emitted by stepwise_run or checked by accepts has its
\* state among the automaton's states and every symbol of its stack in the
\* stack alphabet.
C32_ConfigurationsWellFormed ==
    LoaderAccepts(automaton) =>
        \A config \in EmittedConfigs \cup ExploredConfigs : WellFormed(config)

\* C32 witness: a validated automaton has been run three steps or more by both
\* drivers, and some configuration emitted stands in a state other than the
\* initial one with two or more symbols on its stack.
C32_Witness ==
    /\ LoaderAccepts(automaton)
    /\ Len(sw_emitted) >= 4
    /\ Len(ac_explored) >= 4
    /\ \E config \in EmittedConfigs :
          /\ config.state # automaton.initial_state
          /\ Len(config.stack) >= 2


\* Sequence s is the end of sequence t.
IsSuffix(s, t) ==
    /\ Len(s) <= Len(t)
    /\ s = SubSeq(t, Len(t) - Len(s) + 1, Len(t))

\* The transitions of a configuration's history that read a concrete symbol.
ConcreteReads(config) ==
    {n \in 2..Len(config.history) : Concrete(config.history[n].read)}

LengthEffect(parent, t, child) ==
    /\ Len(child.remaining_input) <= Len(parent.remaining_input)
    /\ Concrete(t.read) =>
          Len(child.remaining_input) = Len(parent.remaining_input) - 1

\* C33: in every frontier of both drivers the remaining input of each
\* configuration is a suffix of the input string; from a configuration to its
\* successor the remaining input never grows and is one symbol shorter when
\* the transition reads a concrete symbol, so that what a configuration has
\* consumed is one symbol for each concrete read of its path.
C33_RemainingInputIsSuffix ==
    /\ \A config \in EmittedConfigs \cup ExploredConfigs :
          /\ IsSuffix(config.remaining_input, input_string)
          /\ Len(input_string) - Len(config.remaining_input) =
                 Cardinality(ConcreteReads(config))
    /\ EverySuccessor(LengthEffect)

\* C33 witness: a configuration emitted after four transitions, two of them
\* concrete reads and two not, with input left.
C33_Witness ==
    \E config \in EmittedConfigs :
        /\ Len(config.history) = 5
        /\ Cardinality(ConcreteReads(config)) = 2
        /\ Len(config.remaining_input) >= 1
        /\ Len(config.remaining_input) = Len(input_string) - 2


HistoryEffect(parent, t, child) ==
    child.history = Append(parent.history, history_entry(t))

\* C34: every configuration of the k-th frontier of either driver (k = 0 for
\* the initial one) has a history of k + 1 entries, its parent's history
\* followed by the entry of the transition applied; and when accepts answers
\* (True, history) the history is that of a path of as many transitions as
\* frontiers were checked before, no path of fewer applicable transitions
\* ending in an accepting configuration (accepts prunes nothing on these
\* runs).
C34_HistoryLength ==
    /\ \A k \in 1..Len(sw_emitted) : \A i \in 1..Len(sw_emitted[k]) :
          Len(sw_emitted[k][i].history) = k
    /\ \A k \in 1..Len(ac_explored) : \A i \in 1..Len(ac_explored[k]) :
          Len(ac_explored[k][i].history) = k
    /\ EverySuccessor(HistoryEffect)
    /\ (ac_pc = "returned" /\ ac_result.accepted) =>
          /\ Len(ac_result.trace) = Len(ac_explored)
          /\ ~AcceptingPath(Len(ac_explored) - 2)

\* C34 witness: accepts has answered True with a history of three transitions
\* after checking a frontier of two configurations or more, one of them a
\* dead end or a detour.
C34_Witness ==
    /\ ac_pc = "returned"
    /\ ac_result.accepted
    /\ Len(ac_result.trace) = 4
    /\ \E k \in 1..Len(ac_explored) : Len(ac_explored[k]) >= 2
    /\ Len(sw_emitted) >= 4


\* C35: a frontier stepwise_run has yielded is not changed by the later steps
\* of the run: whatever the generator has done since, the list still refers
\* to the same configurations, and the state, remaining input, stack and
\* history of each of them are what the consumer saw when it received the
\* list.
C35_SnapshotsUnchanged ==
    /\ Len(g_yielded) = Len(sw_emitted)
    /\ \A n \in 1..Len(g_yielded) :
          ValuesOf(o_heap, o_configs, g_lists[g_yielded[n]]) = sw_emitted[n]

\* C35 witness: four frontiers or more have been yielded, one of them after
\* the first holding two configurations or more, every one but the last has
\* been expanded since, and the generator has ended.
C35_Witness ==
    /\ Len(g_yielded) >= 4
    /\ sw_pc \in {"done", "RuntimeError"}
    /\ \E n \in 2..Len(g_yielded) : Len(g_lists[g_yielded[n]]) >= 2
    /\ Len(o_configs) > Len(g_yielded) + 2


\* Every transition of the automaton reads a concrete input symbol.
AllConcrete == \A t \in AllTransitions : Concrete(t.read)

\* C36 as claimed: when every transition reads a concrete input symbol and
\* max_steps exceeds the length n of the input, the frontier is empty after
\* at most n + 1 expansions: stepwise_run makes no more than n + 1 steps,
\* emits no more than n + 1 frontiers and ends, and accepts makes no more
\* than n + 1 steps and returns, neither of them ending by an error.
C36_Claim ==
    (AllConcrete /\ ValidMode /\ max_steps > Len(input_string)) =>
        /\ sw_step_count <= Len(input_string) + 1
        /\ Len(sw_emitted) <= Len(input_string) + 1
        /\ sw_pc \in {"start", "yielded", "done"}
        /\ ac_step_count <= Len(input_string) + 1
        /\ ac_pc \in {"start", "loop", "returned"}


\* Two configurations that differ in nothing but the start entry of their
\* histories, the first being stepwise_run's and the second accepts'.
SameButStartEntry(sw_config, ac_config) ==
    /\ sw_config.state = ac_config.state
    /\ sw_config.remaining_input = ac_config.remaining_input
    /\ sw_config.stack = ac_config.stack
    /\ sw_config.history[1] = SW_START_ENTRY
    /\ ac_config.history[1] = AC_START_ENTRY
    /\ Tail(sw_config.history) = Tail(ac_config.history)

SameFrontier(sw_list, ac_list) ==
    /\ Len(sw_list) = Len(ac_list)
    /\ \A i \in 1..Len(sw_list) : SameButStartEntry(sw_list[i], ac_list[i])

\* C37: run on the same automaton and input with max_configs at its default,
\* the two drivers explore the same frontiers: the k-th frontier accepts
\* checks and the k-th frontier stepwise_run emits hold the same
\* configurations in the same order, start entry of the histories apart, for
\* every k both have reached; and once both have ended stepwise_run has
\* emitted every frontier accepts checked.
C37_SameFrontiers ==
    max_configs = DEFAULT_MAX_CONFIGS =>
        /\ \A k \in 1..Len(ac_explored) :
              k <= Len(sw_emitted) => SameFrontier(sw_emitted[k], ac_explored[k])
        /\ (/\ sw_pc \in {"done", "RuntimeError", "IndexError"}
            /\ ac_pc \in {"returned", "RuntimeError", "IndexError"}) =>
              Len(ac_explored) <= Len(sw_emitted)

\* C37 witness: with max_configs at its default accepts has returned True
\* after checking four frontiers, one of them of three configurations or
\* more, and stepwise_run has ended after emitting more frontiers than that.
C37_Witness ==
    /\ max_configs = DEFAULT_MAX_CONFIGS
    /\ ac_pc = "returned"
    /\ ac_result.accepted
    /\ Len(ac_explored) = 4
    /\ \E k \in 1..Len(ac_explored) : Len(ac_explored[k]) >= 3
    /\ sw_pc \in {"done", "RuntimeError"}
    /\ Len(sw_emitted) > Len(ac_explored)


\* The frontier obtained after exactly max_steps expansions holds an accepting
\* configuration and none was reachable by fewer transitions.
AcceptingFirstAtLimit ==
    /\ \E c \in ReachedBy(max_steps) : Accepting(c)
    /\ ~AcceptingPath(max_steps - 1)

\* C38 as claimed: with max_steps = n, when the frontier obtained after
\* exactly n expansions holds an accepting configuration and none appeared
\* earlier, accepts ends by returning (True, history), not by the step-limit
\* error.
C38_Claim ==
    (/\ ValidMode
     /\ ac_pc \in {"returned", "RuntimeError"}
     /\ AcceptingFirstAtLimit) =>
        /\ ac_pc = "returned"
        /\ ac_result.accepted

====
